---- MODULE Spec2Model ----
(***************************************************************************)
(* A model of the HID++ haptic daemon (daemon/src/hidpp.rs, dbus.rs).      *)
(*                                                                         *)
(* The HapticManager and its HidppDevice session are modelled as records   *)
(* whose fields carry the names of the Rust fields.  Every Rust method is  *)
(* an operator computing, from the receiver and its inputs, the receiver   *)
(* after the call, the returned value and the I/O the call performed.      *)
(* A Rust Option is a sequence of length 0 (None) or 1 (Some).             *)
(***************************************************************************)
EXTENDS Integers, Sequences, FiniteSets, TLC

VARIABLES
    mgr,        \* the HapticManager behind the shared handle
    clock,      \* wall clock, milliseconds (SystemTime::now)
    dev,        \* the physical device: connection type and feature table
    op,         \* the public operation just called, with its inputs
    ret,        \* what that operation returned
    io,         \* the I/O events that operation performed, in order
    prev,       \* the last emit call and the emit call before it
    lock,       \* the Mutex of the shared handle: the handler holding the guard, if any
    hpc,        \* per IPC call-handler: its position
    chan,       \* exchange events on the session's channel, in order (handler ids)
    fin,        \* input of the pure function under check
    fout        \* its result

vars == <<mgr, clock, dev, op, ret, io, prev, lock, hpc, chan, fin, fout>>

(***************************************************************************)
(* Options                                                                 *)
(***************************************************************************)
None == <<>>
Some(x) == <<x>>
IsSome(o) == o /= <<>>
Unwrap(o) == o[1]

\* let x = v; body: the value v is computed once and bound to the parameter
\* of Body
With(v, Body(_)) == CHOOSE r \in {Body(x) : x \in {v}} : TRUE

(***************************************************************************)
(* Constants of hidpp.rs                                                   *)
(***************************************************************************)
SHORT == \H10
LONG == \H11

I_ROOT == \H0000
I_FEATURE_SET == \H0001
DEVICE_NAME == \H0005
BATTERY_STATUS == \H1000
LED_CONTROL == \H1300
FORCE_FEEDBACK == \H8123
MX_MASTER_4_HAPTIC == \H19B0
MX4_HAPTIC_ALT == \H0B4E
ADJUSTABLE_DPI == \H2201

SPECIAL_KEYS == \H1B04
REPORT_RATE == \H8060
ONBOARD_PROFILES == \H8100
MODE_STATUS == \H8090
MOUSE_BUTTON_SPY == \H8110
PERSISTENT_REMAPPABLE_ACTION == \H1BC0
HOST_INFO == \H1815

SOFTWARE_ID == \H01
MX4_HAPTIC_FEATURE_INDEX == \H0B
MX4_HAPTIC_FUNCTION == \H04
MX4_HAPTIC_SW_ID == \H0E

RECONNECT_COOLDOWN_MS == 5000
DEFAULT_SLICE_DEBOUNCE_MS == 20
DEFAULT_REENTRY_DEBOUNCE_MS == 50
DEFAULT_DEBOUNCE_MS == 20

U8 == 0..255
U16 == 0..65535

(***************************************************************************)
(* Feature Safety Catalog                                                  *)
(***************************************************************************)
\* is_blocklisted with one arm of the matches! missing
is_blocklisted_without_host_info(feature_id) ==
    feature_id \in {SPECIAL_KEYS, REPORT_RATE, ONBOARD_PROFILES, MODE_STATUS,
                    MOUSE_BUTTON_SPY, PERSISTENT_REMAPPABLE_ACTION}

is_blocklisted(feature_id) ==
    feature_id \in {SPECIAL_KEYS, REPORT_RATE, ONBOARD_PROFILES, MODE_STATUS,
                    MOUSE_BUTTON_SPY, PERSISTENT_REMAPPABLE_ACTION, HOST_INFO}

SAFELIST ==
    <<I_ROOT, I_FEATURE_SET, DEVICE_NAME, BATTERY_STATUS, LED_CONTROL,
      FORCE_FEEDBACK, MX_MASTER_4_HAPTIC, MX4_HAPTIC_ALT, ADJUSTABLE_DPI>>

is_allowed(feature_id) == \E i \in 1..Len(SAFELIST) : SAFELIST[i] = feature_id

Ok(v) == [ok |-> TRUE, val |-> v]
Err(e) == [ok |-> FALSE, err |-> e]
SafetyViolation(feature_id) == [kind |-> "SafetyViolation", feature_id |-> feature_id]

\* The result carries, beside Ok/Err, whether the "unknown feature" caution
\* was logged.
verify_feature_safety(feature_id) ==
    IF is_blocklisted(feature_id)
    THEN [res |-> Err(SafetyViolation(feature_id)), warned |-> FALSE]
    ELSE [res |-> Ok(<<>>), warned |-> ~is_allowed(feature_id)]

(***************************************************************************)
(* Bytes                                                                   *)
(***************************************************************************)
\* Rust indexes from 0: B(resp, k) is resp[k]
B(bytes, k) == bytes[k + 1]
Hi(w) == (w \div 256) % 256
Lo(w) == w % 256
U16Of(hi, lo) == hi * 256 + lo
\* (function << 4) | sw_id on u8, for sw_id <= 0x0F
FnSw(function, sw_id) == ((function * 16) % 256) + (sw_id % 16)
\* params copied into a zeroed slot of n bytes, truncated to n
Pad(params, n) == [i \in 1..n |-> IF i <= Len(params) THEN params[i] ELSE 0]

(***************************************************************************)
(* The physical device (environment).  A device is a record                *)
(*   conn   its ConnectionType as find_device classifies it,               *)
(*   ping   how it answers the IRoot ping: "echo", "mismatch" (a reply     *)
(*          whose byte 6 is not the byte sent), anything else: no reply,   *)
(*   table  what it reports at each feature-table position: table[i + 1]   *)
(*          is the identifier it reports for getFeatureID(i), or NOREPLY   *)
(*          when it does not answer for that position,                     *)
(*   dpi    its sensor DPI.                                                *)
(* The index the code gives position i is i + 1 (enumerate_features), so   *)
(* table[idx] is the identifier at feature index idx.                      *)
(***************************************************************************)
NOREPLY == \H10000

\* index at which the device holds identifier id; 0 when it has none
DevIndexOf(dv, id) ==
    IF \E i \in 1..Len(dv.table) : dv.table[i] = id
    THEN CHOOSE i \in 1..Len(dv.table) :
            dv.table[i] = id /\ \A j \in 1..(i - 1) : dv.table[j] /= id
    ELSE 0

DevIdAt(dv, idx) ==
    IF idx \in 1..Len(dv.table) THEN dv.table[idx] ELSE NOREPLY

\* The payload the device answers getSensorDpiList with: its dpi_list when
\* it has one, else the sensor index and its one DPI, zero-padded
DevDpiList(dv) ==
    IF "dpi_list" \in DOMAIN dv THEN dv.dpi_list
    ELSE <<0, Hi(dv.dpi), Lo(dv.dpi), 0, 0, 0, 0, 0, 0, 0, 0, 0, 0, 0, 0, 0>>

\* The payload the device answers a request frame with, if it answers.
DevReply(dv, request) ==
    LET fi == B(request, 2)
        fn == B(request, 3) \div 16
        fs == DevIndexOf(dv, I_FEATURE_SET)
    IN  IF fi = 0 /\ fn = 1 THEN
            IF dv.ping = "echo" THEN Some(<<4, 2, B(request, 6)>>)
            ELSE IF dv.ping = "mismatch" THEN Some(<<4, 2, (B(request, 6) + 1) % 256>>)
            ELSE None
        ELSE IF fi = 0 /\ fn = 0 THEN
            Some(<<DevIndexOf(dv, U16Of(B(request, 4), B(request, 5))), 0, 0>>)
        ELSE IF fi = 0 THEN None
        ELSE IF fi = fs /\ fn = 0 THEN Some(<<Len(dv.table), 0, 0>>)
        ELSE IF fi = fs /\ fn = 1 THEN
            LET id == DevIdAt(dv, B(request, 4) + 1)
            IN  IF id = NOREPLY THEN None ELSE Some(<<Hi(id), Lo(id), 0>>)
        ELSE IF DevIdAt(dv, fi) = ADJUSTABLE_DPI /\ fn \in {2, 3} THEN
            IF fn = 2 THEN Some(<<0, Hi(dv.dpi), Lo(dv.dpi)>>)
            ELSE Some(<<0, B(request, 5), B(request, 6)>>)
        ELSE IF DevIdAt(dv, fi) = ADJUSTABLE_DPI /\ fn = 1 THEN
            Some(DevDpiList(dv))
        ELSE IF DevIdAt(dv, fi) = FORCE_FEEDBACK /\ fn = 0 THEN Some(<<0, 0, 0>>)
        ELSE None

\* The frame carrying a reply payload: the request's header echoed
ReplyFrame(request, payload) ==
    <<IF Len(payload) > 3 THEN LONG ELSE SHORT,
      B(request, 1), B(request, 2), B(request, 3)>> \o payload

\* HID++ 2.0 error frame answering a request
ErrorFrame(request, code) ==
    <<SHORT, B(request, 1), 255, B(request, 2), B(request, 3), code, 0>>

(***************************************************************************)
(* The channel during one public operation.  A context cx is               *)
(*   dv     the physical device,                                           *)
(*   fault  the fault injected into this operation: [at, kind] hits the    *)
(*          at-th frame the operation writes: "wfail" the write fails with *)
(*          an I/O error, "lost" no reply arrives, "rderr" the read after  *)
(*          it fails with an I/O error, "errframe" the device answers      *)
(*          with an error frame; NoFault otherwise,                        *)
(*   n      frames written so far by the operation,                        *)
(*   log    the I/O events of the operation so far.                        *)
(***************************************************************************)
NoFault == [at |-> 0, kind |-> "none"]
FaultKinds == {"wfail", "lost", "rderr", "errframe"}
\* whether the fault was hit: the operation wrote the frame it is aimed at
\* (a fault that was not hit is the same run as NoFault)
Hit(fault, cx) == fault = NoFault \/ fault.at <= cx.n

NewCx(dv, fault) == [dv |-> dv, fault |-> fault, n |-> 0, log |-> <<>>]
FaultHere(cx) == IF cx.fault.at = cx.n + 1 THEN cx.fault.kind ELSE "none"
Logged(cx, ev) == [cx EXCEPT !.log = Append(@, ev)]

EvDrain == [k |-> "drain"]
EvOpen == [k |-> "open"]
EvWrite(frame, ok) == [k |-> "write", frame |-> frame, ok |-> ok]
EvPoll(reads) == [k |-> "poll", reads |-> reads]
EvSleep(ms) == [k |-> "sleep", ms |-> ms]

\* What the reads after the n-th written frame return, in order; once the
\* sequence is used up every read reports WouldBlock.
RxAfter(cx, request) ==
    LET f == FaultHere(cx)
        a == DevReply(cx.dv, request)
    IN  IF f = "lost" THEN <<>>
        ELSE IF f = "rderr" THEN <<[k |-> "ioerr"]>>
        ELSE IF f = "errframe" THEN <<[k |-> "frame", bytes |-> ErrorFrame(request, 2)]>>
        ELSE IF IsSome(a)
             THEN <<[k |-> "frame", bytes |-> ReplyFrame(request, Unwrap(a))]>>
             ELSE <<>>

(***************************************************************************)
(* HidppDevice: the Device Session                                         *)
(***************************************************************************)
MAX_ATTEMPTS == 100

ConnectionTypes == {"Usb", "Bolt", "Bluetooth", "Unifying"}

\* open(): device index from connection type
DeviceIndexOf(connection_type) ==
    CASE connection_type = "Usb" -> \HFF
      [] connection_type = "Bolt" -> \H02
      [] connection_type = "Unifying" -> \H01
      [] connection_type = "Bluetooth" -> \HFF

\* open(): the session before validation and enumeration
NewSession(connection_type) ==
    [device_index |-> DeviceIndexOf(connection_type),
     connection_type |-> connection_type,
     feature_table |-> <<>>,
     haptic_supported |-> FALSE,
     haptic_feature_index |-> None,
     mx4_haptic_supported |-> FALSE,
     mx4_haptic_feature_index |-> None,
     dpi_supported |-> FALSE,
     dpi_feature_index |-> None]

\* HashMap::insert
MapInsert(map, key, val) ==
    [x \in (DOMAIN map) \cup {key} |-> IF x = key THEN val ELSE map[x]]

drain_buffer(cx) == Logged(cx, EvDrain)

Take(bytes, n) == IF Len(bytes) > n THEN SubSeq(bytes, 1, n) ELSE bytes

\* The poll loop of hidpp_request: rx is what the coming reads return,
\* attempts the attempts counted so far.  Yields the response and the number
\* of reads made.
RECURSIVE PollLoop(_, _, _, _, _)
PollLoop(d, feature_index, function, rx, attempts) ==
    LET ev == IF rx = <<>> THEN [k |-> "wouldblock"] ELSE Head(rx)
        rest == IF rx = <<>> THEN <<>> ELSE Tail(rx)
        response == IF ev.k = "frame" THEN Take(ev.bytes, 20) ELSE <<>>
        len == Len(response)
        again == IF attempts + 1 > MAX_ATTEMPTS
                 THEN [resp |-> None, reads |-> attempts + 1]
                 ELSE PollLoop(d, feature_index, function, rest, attempts + 1)
    IN  IF rx = <<>> THEN
            \* every remaining read reports WouldBlock: the loop runs until
            \* attempts exceeds MAX_ATTEMPTS
            [resp |-> None,
             reads |-> IF attempts > MAX_ATTEMPTS THEN attempts + 1 ELSE MAX_ATTEMPTS + 1]
        ELSE IF ev.k = "ioerr" THEN [resp |-> None, reads |-> attempts + 1]
        ELSE IF ev.k = "frame" /\ len >= 7 /\ B(response, 0) \in {SHORT, LONG} THEN
            IF /\ B(response, 1) = d.device_index
               /\ B(response, 2) = feature_index
               /\ (B(response, 3) \div 16) % 16 = function
               /\ B(response, 3) % 16 = SOFTWARE_ID
            THEN [resp |-> Some(response), reads |-> attempts + 1]
            ELSE IF B(response, 2) = \HFF THEN [resp |-> None, reads |-> attempts + 1]
            ELSE IF B(response, 2) = \H8F THEN [resp |-> None, reads |-> attempts + 1]
            ELSE again
        ELSE again

\* hidpp_request: drain, write one short frame, poll for the matching reply
hidpp_request(d, cx, feature_index, function, params) ==
    With(drain_buffer(cx), LAMBDA cx1 :
    With(<<SHORT, d.device_index, feature_index,
           FnSw(function, SOFTWARE_ID)>> \o Pad(params, 3), LAMBDA request :
    With(FaultHere(cx1) /= "wfail", LAMBDA wok :
    With([Logged(cx1, EvWrite(request, wok)) EXCEPT !.n = @ + 1], LAMBDA cx2 :
        IF ~wok THEN [cx |-> cx2, val |-> None]
        ELSE With(PollLoop(d, feature_index, function, RxAfter(cx1, request), 0),
                  LAMBDA pr : [cx |-> Logged(cx2, EvPoll(pr.reads)), val |-> pr.resp])))))

\* validate_hidpp20 taking any reply to the ping for an echo
validate_hidpp20_any_reply(d, cx) ==
    With(hidpp_request(d, cx, 0, 1, <<0, 0, \HAA>>), LAMBDA r :
        [cx |-> r.cx, val |-> IsSome(r.val)])

validate_hidpp20(d, cx) ==
    With(hidpp_request(d, cx, 0, 1, <<0, 0, \HAA>>), LAMBDA r :
        [cx |-> r.cx,
         val |-> IsSome(r.val) /\ Len(Unwrap(r.val)) >= 7 /\ B(Unwrap(r.val), 6) = \HAA])

get_feature_index(d, cx, feature_id) ==
    With(hidpp_request(d, cx, 0, 0, <<Hi(feature_id), Lo(feature_id), 0>>), LAMBDA r :
        [cx |-> r.cx,
         val |-> IF IsSome(r.val) /\ Len(Unwrap(r.val)) >= 5 /\ B(Unwrap(r.val), 4) /= 0
                 THEN Some(B(Unwrap(r.val), 4))
                 ELSE None])

\* enumerate_features, the flags set for one recognized identifier
FlagFeature(d, feature_id, feature_index) ==
    [d EXCEPT
       !.haptic_supported = IF feature_id = FORCE_FEEDBACK THEN TRUE ELSE @,
       !.haptic_feature_index =
           IF feature_id = FORCE_FEEDBACK THEN Some(feature_index) ELSE @,
       !.mx4_haptic_supported =
           IF feature_id \in {MX_MASTER_4_HAPTIC, MX4_HAPTIC_ALT} THEN TRUE ELSE @,
       !.mx4_haptic_feature_index =
           IF feature_id \in {MX_MASTER_4_HAPTIC, MX4_HAPTIC_ALT}
           THEN Some(feature_index) ELSE @,
       !.dpi_supported = IF feature_id = ADJUSTABLE_DPI THEN TRUE ELSE @,
       !.dpi_feature_index =
           IF feature_id = ADJUSTABLE_DPI THEN Some(feature_index) ELSE @]

\* enumerate_features, the body of the for loop for one non-blocklisted
\* identifier: insert into the table and flag the recognized capabilities
\* the loop body setting the capability flags without the table insert
RecordFeatureFlagsOnly(d, feature_id, feature_index) ==
    FlagFeature(d, feature_id, feature_index)

RecordFeature(d, feature_id, feature_index) ==
    FlagFeature([d EXCEPT !.feature_table = MapInsert(@, feature_id, feature_index)],
                feature_id, feature_index)

\* enumerate_features with the blocklist check left out
EnumStepNoBlocklist(d, resp, i) ==
    RecordFeature(d, U16Of(B(resp, 4), B(resp, 5)), i + 1)

\* enumerate_features: what one reply of the for loop does to the session
EnumStep(d, resp, i) ==
    IF Len(resp) < 6 THEN d
    ELSE IF is_blocklisted(U16Of(B(resp, 4), B(resp, 5))) THEN d
    ELSE RecordFeature(d, U16Of(B(resp, 4), B(resp, 5)), i + 1)

\* enumerate_features: for i in i..feature_count
RECURSIVE EnumLoop(_, _, _, _, _)
EnumLoop(d, cx, feature_set_index, i, feature_count) ==
    IF i >= feature_count THEN [d |-> d, cx |-> cx]
    ELSE With(hidpp_request(d, cx, feature_set_index, 1, <<i, 0, 0>>), LAMBDA r :
         With(IF IsSome(r.val) THEN EnumStep(d, Unwrap(r.val), i) ELSE d, LAMBDA d1 :
             EnumLoop(d1, r.cx, feature_set_index, i + 1, feature_count)))

enumerate_features(d, cx) ==
    With(get_feature_index(d, cx, I_FEATURE_SET), LAMBDA fs :
        IF ~IsSome(fs.val) THEN [d |-> d, cx |-> fs.cx]
        ELSE With(hidpp_request(d, fs.cx, Unwrap(fs.val), 0, <<>>), LAMBDA cnt :
                 IF IsSome(cnt.val) /\ Len(Unwrap(cnt.val)) >= 5
                 THEN EnumLoop(d, cnt.cx, Unwrap(fs.val), 0, B(Unwrap(cnt.val), 4))
                 ELSE [d |-> d, cx |-> cnt.cx]))

\* HidppDevice::open: find_device yields the device when avail; then open,
\* validate, enumerate.  val is the Option<Self>.
open(cx, avail) ==
    With(Logged(cx, EvOpen), LAMBDA cx1 :
        IF ~avail THEN [cx |-> cx1, val |-> None]
        ELSE With(validate_hidpp20(NewSession(cx.dv.conn), cx1), LAMBDA v :
                 IF ~v.val THEN [cx |-> v.cx, val |-> None]
                 ELSE With(enumerate_features(NewSession(cx.dv.conn), v.cx), LAMBDA e :
                          [cx |-> e.cx, val |-> Some(e.d)])))

(***************************************************************************)
(* Haptic events, waveforms, pulses                                        *)
(***************************************************************************)
HapticEvents == {"MenuAppear", "SliceChange", "SelectionConfirm", "InvalidAction"}

\* Mx4HapticPattern::to_id
to_id(pattern) ==
    CASE pattern = "SharpStateChange" -> \H00
      [] pattern = "DampStateChange" -> \H01
      [] pattern = "SharpCollision" -> \H02
      [] pattern = "DampCollision" -> \H03
      [] pattern = "SubtleCollision" -> \H04
      [] pattern = "HappyAlert" -> \H05
      [] pattern = "AngryAlert" -> \H06
      [] pattern = "Completed" -> \H07
      [] pattern = "Square" -> \H08
      [] pattern = "Wave" -> \H09
      [] pattern = "Firework" -> \H0A
      [] pattern = "Mad" -> \H0B
      [] pattern = "Knock" -> \H0C
      [] pattern = "Jingle" -> \H0D
      [] pattern = "Ringing" -> \H0E
      [] pattern = "WhisperCollision" -> \H1B

\* HapticEvent::base_profile (haptic_profiles)
base_profile(event) ==
    CASE event = "MenuAppear" -> [intensity |-> 20, duration_ms |-> 10]
      [] event = "SliceChange" -> [intensity |-> 40, duration_ms |-> 15]
      [] event = "SelectionConfirm" -> [intensity |-> 80, duration_ms |-> 25]
      [] event = "InvalidAction" -> [intensity |-> 30, duration_ms |-> 50]

\* HapticEvent::pattern
pattern(event) ==
    CASE event = "MenuAppear" -> "Single"
      [] event = "SliceChange" -> "Single"
      [] event = "SelectionConfirm" -> "Double"
      [] event = "InvalidAction" -> "Triple"

\* HapticPattern::pulse_count
pulse_count(p) ==
    CASE p = "Single" -> 1 [] p = "Double" -> 2 [] p = "Triple" -> 3

\* HapticPattern::gap_ms
gap_ms(p) ==
    CASE p = "Single" -> 0 [] p = "Double" -> 30 [] p = "Triple" -> 20

\* PerEventPattern::default
PerEventDefault ==
    [menu_appear |-> "DampStateChange", slice_change |-> "SubtleCollision",
     confirm |-> "SharpStateChange", invalid |-> "AngryAlert"]

\* Mx4HapticPattern::from_name: the waveform a configuration name stands
\* for; a name that is not recognized stands for SubtleCollision
from_name(name) ==
    CASE name = "sharp_state_change" -> "SharpStateChange"
      [] name = "damp_state_change" -> "DampStateChange"
      [] name = "sharp_collision" -> "SharpCollision"
      [] name = "damp_collision" -> "DampCollision"
      [] name = "subtle_collision" -> "SubtleCollision"
      [] name = "whisper_collision" -> "WhisperCollision"
      [] name = "happy_alert" -> "HappyAlert"
      [] name = "angry_alert" -> "AngryAlert"
      [] name = "completed" -> "Completed"
      [] name = "square" -> "Square"
      [] name = "wave" -> "Wave"
      [] name = "firework" -> "Firework"
      [] name = "mad" -> "Mad"
      [] name = "knock" -> "Knock"
      [] name = "jingle" -> "Jingle"
      [] name = "ringing" -> "Ringing"
      [] OTHER -> "SubtleCollision"

\* the PerEventPattern built from the names of a configuration
PerEventFromNames(names) ==
    [menu_appear |-> from_name(names.menu_appear),
     slice_change |-> from_name(names.slice_change),
     confirm |-> from_name(names.confirm),
     invalid |-> from_name(names.invalid)]

\* the names a configuration holds for the waveforms of
\* PerEventPattern::default
PerEventNamesDefault ==
    [menu_appear |-> "damp_state_change", slice_change |-> "subtle_collision",
     confirm |-> "sharp_state_change", invalid |-> "angry_alert"]

\* PerEventPattern::get
PerEventGet(per_event, event) ==
    CASE event = "MenuAppear" -> per_event.menu_appear
      [] event = "SliceChange" -> per_event.slice_change
      [] event = "SelectionConfirm" -> per_event.confirm
      [] event = "InvalidAction" -> per_event.invalid

HapticErr(kind) == [kind |-> kind]

(***************************************************************************)
(* HidppDevice: haptic and DPI methods                                     *)
(***************************************************************************)
haptic_supported(d) == d.mx4_haptic_supported \/ d.haptic_supported

\* send_haptic_pattern playing the default waveform whatever is asked for
send_haptic_pattern_default_waveform(d, cx, pat) ==
    IF ~d.mx4_haptic_supported THEN [cx |-> cx, val |-> Ok(<<>>)]
    ELSE With(drain_buffer(cx), LAMBDA cx1 :
         With(<<SHORT, d.device_index, MX4_HAPTIC_FEATURE_INDEX,
                FnSw(MX4_HAPTIC_FUNCTION, MX4_HAPTIC_SW_ID), to_id("SubtleCollision"), 0, 0>>,
              LAMBDA request :
         With(FaultHere(cx1) /= "wfail", LAMBDA wok :
             [cx |-> [Logged(cx1, EvWrite(request, wok)) EXCEPT !.n = @ + 1],
              val |-> IF wok THEN Ok(<<>>) ELSE Err(HapticErr("IoError"))])))

send_haptic_pattern(d, cx, pat) ==
    IF ~d.mx4_haptic_supported THEN [cx |-> cx, val |-> Ok(<<>>)]
    ELSE With(drain_buffer(cx), LAMBDA cx1 :
         With(<<SHORT, d.device_index, MX4_HAPTIC_FEATURE_INDEX,
                FnSw(MX4_HAPTIC_FUNCTION, MX4_HAPTIC_SW_ID), to_id(pat), 0, 0>>,
              LAMBDA request :
         With(FaultHere(cx1) /= "wfail", LAMBDA wok :
             [cx |-> [Logged(cx1, EvWrite(request, wok)) EXCEPT !.n = @ + 1],
              val |-> IF wok THEN Ok(<<>>) ELSE Err(HapticErr("IoError"))])))

send_haptic_pulse(d, cx, intensity, duration_ms) ==
    IF ~IsSome(d.haptic_feature_index) THEN [cx |-> cx, val |-> Ok(<<>>)]
    ELSE With(hidpp_request(d, cx, Unwrap(d.haptic_feature_index), 0,
                            <<intensity, Hi(duration_ms), Lo(duration_ms)>>),
              LAMBDA r : [cx |-> r.cx, val |-> Ok(<<>>)])

DeviceGetDpi(d, cx) ==
    IF ~IsSome(d.dpi_feature_index) THEN [cx |-> cx, val |-> None]
    ELSE With(hidpp_request(d, cx, Unwrap(d.dpi_feature_index), 2, <<0, 0, 0>>),
              LAMBDA r :
                  [cx |-> r.cx,
                   val |-> IF IsSome(r.val) /\ Len(Unwrap(r.val)) >= 7
                           THEN Some(U16Of(B(Unwrap(r.val), 5), B(Unwrap(r.val), 6)))
                           ELSE None])

DeviceSetDpi(d, cx, dpi) ==
    IF ~IsSome(d.dpi_feature_index)
    THEN [cx |-> cx, val |-> Err(HapticErr("NotSupported"))]
    ELSE With(hidpp_request(d, cx, Unwrap(d.dpi_feature_index), 3,
                            <<0, Hi(dpi), Lo(dpi)>>),
              LAMBDA r :
                  [cx |-> r.cx,
                   val |-> IF IsSome(r.val) THEN Ok(<<>>)
                           ELSE Err(HapticErr("CommunicationError"))])

\* the while loop of get_dpi_list taking the step markers for DPI values
RECURSIVE ParseDpiListKeepingSteps(_, _, _)
ParseDpiListKeepingSteps(data, i, dpi_list) ==
    IF ~(i + 1 < Len(data)) THEN dpi_list
    ELSE With(U16Of(B(data, i), B(data, i + 1)), LAMBDA dpi :
             IF dpi = 0 THEN dpi_list
             ELSE ParseDpiListKeepingSteps(data, i + 2, Append(dpi_list, dpi)))

\* get_dpi_list: the while loop over data from offset i
RECURSIVE ParseDpiList(_, _, _)
ParseDpiList(data, i, dpi_list) ==
    IF ~(i + 1 < Len(data)) THEN dpi_list
    ELSE With(U16Of(B(data, i), B(data, i + 1)), LAMBDA dpi :
             IF dpi = 0 THEN dpi_list
             ELSE IF dpi >= \HE000 THEN ParseDpiList(data, i + 2, dpi_list)
             ELSE ParseDpiList(data, i + 2, Append(dpi_list, dpi)))

DeviceGetDpiList(d, cx) ==
    IF ~IsSome(d.dpi_feature_index) THEN [cx |-> cx, val |-> None]
    ELSE With(hidpp_request(d, cx, Unwrap(d.dpi_feature_index), 1, <<0, 0, 0>>),
              LAMBDA r :
                  [cx |-> r.cx,
                   val |-> IF IsSome(r.val) /\ Len(Unwrap(r.val)) >= 6
                           THEN Some(ParseDpiList(
                                    SubSeq(Unwrap(r.val), 6, Len(Unwrap(r.val))), 0, <<>>))
                           ELSE None])

(***************************************************************************)
(* HapticManager                                                           *)
(***************************************************************************)
ConnectionStates == {"NotConnected", "Connected", "Disconnected", "Cooldown"}

saturating_sub(a, b) == IF a >= b THEN a - b ELSE 0

\* HapticManager::from_config, for a configuration cfg
from_config(cfg) ==
    [device |-> None,
     per_event |-> PerEventFromNames(cfg.per_event),
     enabled |-> cfg.enabled,
     last_pulse_ms |-> 0,
     connection_state |-> "NotConnected",
     last_disconnect_ms |-> 0,
     debounce_ms |-> cfg.debounce_ms,
     slice_debounce_ms |-> cfg.slice_debounce_ms,
     reentry_debounce_ms |-> cfg.reentry_debounce_ms,
     last_slice_change_ms |-> 0,
     last_slice_index |-> None]

update_from_config(m, cfg) ==
    [m EXCEPT !.per_event = PerEventFromNames(cfg.per_event),
              !.enabled = cfg.enabled,
              !.debounce_ms = cfg.debounce_ms,
              !.slice_debounce_ms = cfg.slice_debounce_ms,
              !.reentry_debounce_ms = cfg.reentry_debounce_ms]

connect(m, cx, avail) ==
    With(open(cx, avail), LAMBDA r :
        IF IsSome(r.val)
        THEN [m |-> [m EXCEPT !.device = r.val, !.connection_state = "Connected"],
              cx |-> r.cx, val |-> Ok(TRUE)]
        ELSE [m |-> [m EXCEPT !.connection_state = "NotConnected"],
              cx |-> r.cx, val |-> Ok(FALSE)])

handle_disconnect(m, now) ==
    [m EXCEPT !.device = None,
              !.connection_state = "Disconnected",
              !.last_disconnect_ms = now]

\* reconnect_if_needed, the branch taken in Disconnected and Cooldown
Reconnect(m, cx, now, avail) ==
    IF saturating_sub(now, m.last_disconnect_ms) < RECONNECT_COOLDOWN_MS
    THEN [m |-> [m EXCEPT !.connection_state = "Cooldown"], cx |-> cx, val |-> FALSE]
    ELSE With(connect(m, cx, avail), LAMBDA c :
             IF c.val.ok /\ c.val.val
             THEN [m |-> c.m, cx |-> c.cx, val |-> TRUE]
             ELSE [m |-> [c.m EXCEPT !.connection_state = "Cooldown",
                                     !.last_disconnect_ms = now],
                   cx |-> c.cx, val |-> FALSE])

\* reconnect_if_needed that tries to connect from NotConnected as well
reconnect_if_needed_always(m, cx, now, avail) ==
    IF m.connection_state = "Connected"
    THEN [m |-> m, cx |-> cx, val |-> TRUE]
    ELSE Reconnect(m, cx, now, avail)

reconnect_if_needed(m, cx, now, avail) ==
    IF m.connection_state /= "Disconnected" /\ m.connection_state /= "Cooldown"
    THEN [m |-> m, cx |-> cx, val |-> m.connection_state = "Connected"]
    ELSE Reconnect(m, cx, now, avail)

\* pulse: now is the clock when the call reads it
pulse(m, cx, now, haptic) ==
    IF ~m.enabled THEN [m |-> m, cx |-> cx, val |-> Ok(<<>>)]
    ELSE IF ~(IsSome(m.device) /\ haptic_supported(Unwrap(m.device)))
    THEN [m |-> m, cx |-> cx, val |-> Ok(<<>>)]
    ELSE IF saturating_sub(now, m.last_pulse_ms) < m.debounce_ms
    THEN [m |-> m, cx |-> cx, val |-> Ok(<<>>)]
    ELSE With(send_haptic_pulse(Unwrap(m.device), cx, haptic.intensity,
                                haptic.duration_ms),
              LAMBDA r :
                  IF r.val.ok
                  THEN [m |-> [m EXCEPT !.last_pulse_ms = now], cx |-> r.cx,
                        val |-> Ok(<<>>)]
                  ELSE IF r.val.err.kind = "IoError"
                  THEN [m |-> handle_disconnect(m, now), cx |-> r.cx, val |-> Ok(<<>>)]
                  ELSE [m |-> m, cx |-> r.cx, val |-> Ok(<<>>)])

\* the legacy path of emit leaving the debounce armed between the pulses
RECURSIVE LegacyPulsesWithoutReset(_, _, _, _, _, _)
LegacyPulsesWithoutReset(m, cx, t, haptic, pat, k) ==
    IF k > pulse_count(pat) THEN [m |-> m, cx |-> cx, t |-> t, val |-> Ok(<<>>)]
    ELSE With(IF k > 1 THEN t + gap_ms(pat) ELSE t, LAMBDA t1 :
         With(pulse(m, IF k > 1 THEN Logged(cx, EvSleep(gap_ms(pat))) ELSE cx,
                    t1, haptic),
              LAMBDA r :
                  IF ~r.val.ok THEN [m |-> r.m, cx |-> r.cx, t |-> t1, val |-> r.val]
                  ELSE LegacyPulsesWithoutReset(r.m, r.cx, t1, haptic, pat, k + 1)))

\* emit, legacy path: the pulses of the pattern from the k-th on (k >= 2
\* sleeps the gap and resets the debounce first).  t is the clock.
RECURSIVE LegacyPulses(_, _, _, _, _, _)
LegacyPulses(m, cx, t, haptic, pat, k) ==
    IF k > pulse_count(pat) THEN [m |-> m, cx |-> cx, t |-> t, val |-> Ok(<<>>)]
    ELSE With(IF k > 1 THEN t + gap_ms(pat) ELSE t, LAMBDA t1 :
         With(pulse(IF k > 1 THEN [m EXCEPT !.last_pulse_ms = 0] ELSE m,
                    IF k > 1 THEN Logged(cx, EvSleep(gap_ms(pat))) ELSE cx,
                    t1, haptic),
              LAMBDA r :
                  IF ~r.val.ok THEN [m |-> r.m, cx |-> r.cx, t |-> t1, val |-> r.val]
                  ELSE LegacyPulses(r.m, r.cx, t1, haptic, pat, k + 1)))

\* the native path of emit handing a failed write on to the caller
NativeWaveformSurfacing(m, cx, t, event) ==
    With(send_haptic_pattern(Unwrap(m.device), cx, PerEventGet(m.per_event, event)),
         LAMBDA r :
             IF r.val.ok
             THEN [m |-> [m EXCEPT !.last_pulse_ms = t], cx |-> r.cx, t |-> t,
                   val |-> Ok(<<>>)]
             ELSE [m |-> handle_disconnect(m, t), cx |-> r.cx, t |-> t, val |-> r.val])

\* emit, native path: one waveform frame
NativeWaveform(m, cx, t, event) ==
    With(send_haptic_pattern(Unwrap(m.device), cx, PerEventGet(m.per_event, event)),
         LAMBDA r :
             IF r.val.ok
             THEN [m |-> [m EXCEPT !.last_pulse_ms = t], cx |-> r.cx, t |-> t,
                   val |-> Ok(<<>>)]
             ELSE IF r.val.err.kind = "IoError"
             THEN [m |-> handle_disconnect(m, t), cx |-> r.cx, t |-> t, val |-> Ok(<<>>)]
             ELSE [m |-> m, cx |-> r.cx, t |-> t, val |-> Ok(<<>>)])

\* emit without the debounce check on entry
emit_without_debounce(m, cx, t, event) ==
    IF ~m.enabled THEN [m |-> m, cx |-> cx, t |-> t, val |-> Ok(<<>>)]
    ELSE IF ~(IsSome(m.device) /\ haptic_supported(Unwrap(m.device)))
    THEN [m |-> m, cx |-> cx, t |-> t, val |-> Ok(<<>>)]
    ELSE IF Unwrap(m.device).mx4_haptic_supported
    THEN NativeWaveform(m, cx, t, event)
    ELSE LegacyPulses(m, cx, t,
                      [intensity |-> 50, duration_ms |-> base_profile(event).duration_ms],
                      pattern(event), 1)

\* emit failing when no haptic-capable session is held
emit_requiring_device(m, cx, t, event) ==
    IF ~m.enabled THEN [m |-> m, cx |-> cx, t |-> t, val |-> Ok(<<>>)]
    ELSE IF ~(IsSome(m.device) /\ haptic_supported(Unwrap(m.device)))
    THEN [m |-> m, cx |-> cx, t |-> t, val |-> Err(HapticErr("DeviceNotFound"))]
    ELSE IF saturating_sub(t, m.last_pulse_ms) < m.debounce_ms
    THEN [m |-> m, cx |-> cx, t |-> t, val |-> Ok(<<>>)]
    ELSE IF Unwrap(m.device).mx4_haptic_supported
    THEN NativeWaveform(m, cx, t, event)
    ELSE LegacyPulses(m, cx, t,
                      [intensity |-> 50, duration_ms |-> base_profile(event).duration_ms],
                      pattern(event), 1)

emit(m, cx, t, event) ==
    IF ~m.enabled THEN [m |-> m, cx |-> cx, t |-> t, val |-> Ok(<<>>)]
    ELSE IF ~(IsSome(m.device) /\ haptic_supported(Unwrap(m.device)))
    THEN [m |-> m, cx |-> cx, t |-> t, val |-> Ok(<<>>)]
    ELSE IF saturating_sub(t, m.last_pulse_ms) < m.debounce_ms
    THEN [m |-> m, cx |-> cx, t |-> t, val |-> Ok(<<>>)]
    ELSE IF Unwrap(m.device).mx4_haptic_supported
    THEN NativeWaveform(m, cx, t, event)
    ELSE LegacyPulses(m, cx, t,
                      [intensity |-> 50, duration_ms |-> base_profile(event).duration_ms],
                      pattern(event), 1)

\* emit_slice_change without the re-entry check
emit_slice_change_without_reentry(m, cx, t, slice_index) ==
    IF ~m.enabled THEN [m |-> m, cx |-> cx, t |-> t, val |-> FALSE]
    ELSE With(saturating_sub(t, m.last_slice_change_ms), LAMBDA elapsed_since_last_slice :
             IF elapsed_since_last_slice < m.slice_debounce_ms
             THEN [m |-> [m EXCEPT !.last_slice_index = Some(slice_index)],
                   cx |-> cx, t |-> t, val |-> FALSE]
             ELSE With(emit([m EXCEPT !.last_slice_change_ms = t,
                                      !.last_slice_index = Some(slice_index)],
                            cx, t, "SliceChange"),
                       LAMBDA r : [m |-> r.m, cx |-> r.cx, t |-> r.t, val |-> r.val.ok]))

\* emit_slice_change without the check that haptics are enabled
emit_slice_change_ignoring_enabled(m, cx, t, slice_index) ==
    With(saturating_sub(t, m.last_slice_change_ms), LAMBDA elapsed_since_last_slice :
        IF /\ IsSome(m.last_slice_index)
           /\ Unwrap(m.last_slice_index) = slice_index
           /\ elapsed_since_last_slice < m.reentry_debounce_ms
        THEN [m |-> m, cx |-> cx, t |-> t, val |-> FALSE]
        ELSE IF elapsed_since_last_slice < m.slice_debounce_ms
        THEN [m |-> [m EXCEPT !.last_slice_index = Some(slice_index)],
              cx |-> cx, t |-> t, val |-> FALSE]
        ELSE With(emit([m EXCEPT !.last_slice_change_ms = t,
                                 !.last_slice_index = Some(slice_index)],
                       cx, t, "SliceChange"),
                  LAMBDA r : [m |-> r.m, cx |-> r.cx, t |-> r.t, val |-> r.val.ok]))

\* reset_slice_tracking clearing the tracked slice only
reset_slice_index_only(m) ==
    [m EXCEPT !.last_slice_index = None]

emit_slice_change(m, cx, t, slice_index) ==
    IF ~m.enabled THEN [m |-> m, cx |-> cx, t |-> t, val |-> FALSE]
    ELSE With(saturating_sub(t, m.last_slice_change_ms), LAMBDA elapsed_since_last_slice :
             IF /\ IsSome(m.last_slice_index)
                /\ Unwrap(m.last_slice_index) = slice_index
                /\ elapsed_since_last_slice < m.reentry_debounce_ms
             THEN [m |-> m, cx |-> cx, t |-> t, val |-> FALSE]
             ELSE IF elapsed_since_last_slice < m.slice_debounce_ms
             THEN [m |-> [m EXCEPT !.last_slice_index = Some(slice_index)],
                   cx |-> cx, t |-> t, val |-> FALSE]
             ELSE With(emit([m EXCEPT !.last_slice_change_ms = t,
                                      !.last_slice_index = Some(slice_index)],
                            cx, t, "SliceChange"),
                       LAMBDA r : [m |-> r.m, cx |-> r.cx, t |-> r.t, val |-> r.val.ok]))

reset_slice_tracking(m) ==
    [m EXCEPT !.last_slice_index = None, !.last_slice_change_ms = 0]

\* "Try to connect if not connected" of the DPI methods
ConnectIfNone(m, cx, avail) ==
    IF ~IsSome(m.device)
    THEN With(connect(m, cx, avail), LAMBDA c : [m |-> c.m, cx |-> c.cx])
    ELSE [m |-> m, cx |-> cx]

dpi_supported(m, cx, avail) ==
    With(ConnectIfNone(m, cx, avail), LAMBDA c :
        [m |-> c.m, cx |-> c.cx,
         val |-> IsSome(c.m.device) /\ Unwrap(c.m.device).dpi_supported])

get_dpi(m, cx, avail) ==
    With(ConnectIfNone(m, cx, avail), LAMBDA c :
        IF IsSome(c.m.device)
        THEN With(DeviceGetDpi(Unwrap(c.m.device), c.cx), LAMBDA r :
                 [m |-> c.m, cx |-> r.cx, val |-> r.val])
        ELSE [m |-> c.m, cx |-> c.cx, val |-> None])

\* set_dpi reporting a missing session as a communication error
set_dpi_without_device_kind(m, cx, avail, dpi) ==
    With(ConnectIfNone(m, cx, avail), LAMBDA c :
        IF IsSome(c.m.device)
        THEN With(DeviceSetDpi(Unwrap(c.m.device), c.cx, dpi), LAMBDA r :
                 [m |-> c.m, cx |-> r.cx, val |-> r.val])
        ELSE [m |-> c.m, cx |-> c.cx, val |-> Err(HapticErr("CommunicationError"))])

set_dpi(m, cx, avail, dpi) ==
    With(ConnectIfNone(m, cx, avail), LAMBDA c :
        IF IsSome(c.m.device)
        THEN With(DeviceSetDpi(Unwrap(c.m.device), c.cx, dpi), LAMBDA r :
                 [m |-> c.m, cx |-> r.cx, val |-> r.val])
        ELSE [m |-> c.m, cx |-> c.cx, val |-> Err(HapticErr("DeviceNotFound"))])

get_dpi_list(m, cx, avail) ==
    With(ConnectIfNone(m, cx, avail), LAMBDA c :
        IF IsSome(c.m.device)
        THEN With(DeviceGetDpiList(Unwrap(c.m.device), c.cx), LAMBDA r :
                 [m |-> c.m, cx |-> r.cx, val |-> r.val])
        ELSE [m |-> c.m, cx |-> c.cx, val |-> None])

(***************************************************************************)
(* Bounds and input domains                                                *)
(***************************************************************************)
\* the clock when the daemon starts
StartMs == 100000
\* the clock advances in fine steps and in steps of one cooldown less a fine
\* step; at most MaxFine fine and MaxCoarse coarse steps are taken
MaxFine == 4
MaxCoarse == 1
\* a fault hits one of the first MaxFaultAt frames an operation writes
MaxFaultAt == 3
\* a configured debounce longer than the default one
LongDebounceMs == 50

FineStepMs == DEFAULT_SLICE_DEBOUNCE_MS \div 2
CoarseStepMs == RECONNECT_COOLDOWN_MS - FineStepMs
\* fine steps right after the start; after a coarse step one fine step, which
\* is where a cooldown begun in the first two clock points ends
ClockPoints ==
    {StartMs + i * FineStepMs : i \in 0..MaxFine}
    \cup {StartMs + j * CoarseStepMs + i * FineStepMs : j \in 1..MaxCoarse, i \in 0..1}

Faults == {NoFault} \cup [at : 1..MaxFaultAt, kind : {"wfail", "lost"}]

\* HapticConfig::default
DefaultConfig ==
    [enabled |-> TRUE,
     per_event |-> PerEventNamesDefault,
     debounce_ms |-> DEFAULT_DEBOUNCE_MS,
     slice_debounce_ms |-> DEFAULT_SLICE_DEBOUNCE_MS,
     reentry_debounce_ms |-> DEFAULT_REENTRY_DEBOUNCE_MS]

\* the configurations the daemon is started with
Configs ==
    {[DefaultConfig EXCEPT !.debounce_ms = d] : d \in {DEFAULT_DEBOUNCE_MS, LongDebounceMs}}

\* devices: native waveform playback, legacy force feedback only, no haptics
NativeDev == [conn |-> "Bolt", ping |-> "echo", dpi |-> 800,
              table |-> <<I_FEATURE_SET, MX_MASTER_4_HAPTIC, ADJUSTABLE_DPI>>]
LegacyDev == [conn |-> "Usb", ping |-> "echo", dpi |-> 800,
              table |-> <<I_FEATURE_SET, FORCE_FEEDBACK, ADJUSTABLE_DPI>>]
PlainDev == [conn |-> "Unifying", ping |-> "echo", dpi |-> 800,
             table |-> <<I_FEATURE_SET, DEVICE_NAME>>]
Devices == {NativeDev, LegacyDev, PlainDev}

DpiValues == {1600}
PulseProfiles == {base_profile("SelectionConfirm")}

(***************************************************************************)
(* The controller as a state machine: one action per public operation.     *)
(* A call step leaves its result in op, ret and io; Return hands it to the *)
(* caller.  prev remembers the last emit call and, in first, the emit call *)
(* before it (kept by EmitAgain only).                                     *)
(***************************************************************************)
Idle == [name |-> "none", arg |-> <<>>, fault |-> NoFault, avail |-> TRUE]
Call(name, arg, fault, avail) ==
    [name |-> name, arg |-> arg, fault |-> fault, avail |-> avail]

NoPrev == [name |-> "none", arg |-> <<>>, t0 |-> 0, writes |-> 0, first |-> <<>>]

\* the frames written in an I/O log, and whether it holds an open()
WritesOf(log) == {i \in DOMAIN log : log[i].k = "write"}
Writes(log) == Cardinality(WritesOf(log))
Opens(log) == Cardinality({i \in DOMAIN log : log[i].k = "open"})
FailedWrite(log) == \E i \in WritesOf(log) : ~log[i].ok
NoIo(log) == \A i \in DOMAIN log : log[i].k \notin {"write", "poll", "drain", "open"}

\* the inputs of a call as far as the call used them
Used(fault, avail, cx) == Hit(fault, cx) /\ (avail \/ Opens(cx.log) > 0)

lockVars == <<lock, hpc, chan>>
pureVars == <<fin, fout>>

Init ==
    /\ mgr = from_config(DefaultConfig)
    /\ clock = StartMs
    /\ dev \in Devices
    /\ op = Idle
    /\ ret = <<>>
    /\ io = <<>>
    /\ prev = NoPrev
    /\ lock = None
    /\ hpc = <<>>
    /\ chan = <<>>
    /\ fin = <<>>
    /\ fout = <<>>

\* the caller takes the result of the last call
Return ==
    /\ op /= Idle
    /\ op' = Idle /\ ret' = <<>> /\ io' = <<>>
    /\ UNCHANGED <<mgr, clock, dev, prev, lockVars, pureVars>>

\* time passes between calls
Tick ==
    /\ op = Idle
    /\ \E d \in {FineStepMs, CoarseStepMs} :
          /\ clock + d \in ClockPoints
          /\ clock' = clock + d
    /\ UNCHANGED <<mgr, dev, op, ret, io, prev, lockVars, pureVars>>

Connect ==
    /\ op = Idle
    /\ \E f \in Faults, avail \in BOOLEAN :
        \E r \in {connect(mgr, NewCx(dev, f), avail)} :
            /\ Used(f, avail, r.cx)
            /\ mgr' = r.m
            /\ op' = Call("connect", <<>>, f, avail) /\ ret' = r.val /\ io' = r.cx.log
            /\ UNCHANGED <<clock, dev, prev, lockVars, pureVars>>

ReconnectIfNeeded ==
    /\ op = Idle
    /\ \E f \in Faults, avail \in BOOLEAN :
        \E r \in {reconnect_if_needed(mgr, NewCx(dev, f), clock, avail)} :
            /\ Used(f, avail, r.cx)
            /\ mgr' = r.m
            /\ op' = Call("reconnect_if_needed", <<>>, f, avail)
            /\ ret' = r.val /\ io' = r.cx.log
            /\ UNCHANGED <<clock, dev, prev, lockVars, pureVars>>

\* emit(event); track says whether prev records the call
EmitStep(track) ==
    /\ op = Idle
    /\ \E event \in HapticEvents, f \in Faults :
        \E r \in {emit(mgr, NewCx(dev, f), clock, event)} :
            /\ Used(f, TRUE, r.cx)
            /\ r.t \in ClockPoints
            /\ mgr' = r.m /\ clock' = r.t
            /\ op' = Call("emit", event, f, TRUE) /\ ret' = r.val /\ io' = r.cx.log
            /\ prev' = IF track
                       THEN [name |-> "emit", arg |-> event, t0 |-> clock,
                             writes |-> Writes(r.cx.log),
                             first |-> IF prev.name = "emit"
                                       THEN <<[arg |-> prev.arg, t0 |-> prev.t0,
                                               writes |-> prev.writes]>>
                                       ELSE <<>>]
                       ELSE prev
            /\ UNCHANGED <<dev, lockVars, pureVars>>

Emit == EmitStep(FALSE)

Pulse ==
    /\ op = Idle
    /\ \E haptic \in PulseProfiles, f \in Faults :
        \E r \in {pulse(mgr, NewCx(dev, f), clock, haptic)} :
            /\ Used(f, TRUE, r.cx)
            /\ mgr' = r.m
            /\ op' = Call("pulse", haptic, f, TRUE) /\ ret' = r.val /\ io' = r.cx.log
            /\ UNCHANGED <<clock, dev, prev, lockVars, pureVars>>

DpiSupported ==
    /\ op = Idle
    /\ \E f \in Faults, avail \in BOOLEAN :
        \E r \in {dpi_supported(mgr, NewCx(dev, f), avail)} :
            /\ Used(f, avail, r.cx)
            /\ mgr' = r.m
            /\ op' = Call("dpi_supported", <<>>, f, avail)
            /\ ret' = r.val /\ io' = r.cx.log
            /\ UNCHANGED <<clock, dev, prev, lockVars, pureVars>>

GetDpi ==
    /\ op = Idle
    /\ \E f \in Faults, avail \in BOOLEAN :
        \E r \in {get_dpi(mgr, NewCx(dev, f), avail)} :
            /\ Used(f, avail, r.cx)
            /\ mgr' = r.m
            /\ op' = Call("get_dpi", <<>>, f, avail) /\ ret' = r.val /\ io' = r.cx.log
            /\ UNCHANGED <<clock, dev, prev, lockVars, pureVars>>

SetDpi ==
    /\ op = Idle
    /\ \E dpi \in DpiValues, f \in Faults, avail \in BOOLEAN :
        \E r \in {set_dpi(mgr, NewCx(dev, f), avail, dpi)} :
            /\ Used(f, avail, r.cx)
            /\ mgr' = r.m
            /\ op' = Call("set_dpi", dpi, f, avail) /\ ret' = r.val /\ io' = r.cx.log
            /\ UNCHANGED <<clock, dev, prev, lockVars, pureVars>>

GetDpiList ==
    /\ op = Idle
    /\ \E f \in Faults, avail \in BOOLEAN :
        \E r \in {get_dpi_list(mgr, NewCx(dev, f), avail)} :
            /\ Used(f, avail, r.cx)
            /\ mgr' = r.m
            /\ op' = Call("get_dpi_list", <<>>, f, avail)
            /\ ret' = r.val /\ io' = r.cx.log
            /\ UNCHANGED <<clock, dev, prev, lockVars, pureVars>>

Next ==
    \/ Return
    \/ Tick
    \/ Connect
    \/ ReconnectIfNeeded
    \/ Emit
    \/ Pulse
    \/ DpiSupported
    \/ GetDpi
    \/ SetDpi
    \/ GetDpiList

Spec == Init /\ [][Next]_vars

\* C5: emit and pulse return success in every reachable state and for every
\* event: with no device, with a device lacking haptics, when suppressed by
\* debounce and when the device write fails during the call.
C5_HapticCallsAlwaysSucceed ==
    op.name \in {"emit", "pulse"} => ret = [ok |-> TRUE, val |-> <<>>]

\* C5 witness: an emit during which the device write failed has returned
C5_Witness ==
    op.name = "emit" /\ FailedWrite(io) /\ ret.ok

\* C6: a device write failing with an I/O error during emit or pulse while
\* Connected leaves, when the call returns, no Device Session, Connection
\* State Disconnected and the failure time as last-disconnect timestamp, on
\* the native and the legacy path alike.
C6_WriteFailureDisconnects ==
    [][(/\ op'.name \in {"emit", "pulse"}
        /\ mgr.connection_state = "Connected"
        /\ FailedWrite(io'))
       => (/\ mgr'.device = None
           /\ mgr'.connection_state = "Disconnected"
           /\ mgr'.last_disconnect_ms \in clock..clock')]_vars

\* C7: connect returns true and leaves Connected exactly when find, open and
\* validation produce a session; otherwise it returns false, never an error,
\* and leaves NotConnected; and an emit(MenuAppear) called in the state a
\* failed connect leaves returns success without any read or write.
C7_ConnectOutcome ==
    /\ [](op.name = "connect" =>
            IF IsSome(open(NewCx(dev, op.fault), op.avail).val)
            THEN ret = [ok |-> TRUE, val |-> TRUE]
                 /\ mgr.connection_state = "Connected"
            ELSE ret = [ok |-> TRUE, val |-> FALSE]
                 /\ mgr.connection_state = "NotConnected")
    /\ [][(/\ op'.name = "emit" /\ op'.arg = "MenuAppear"
           /\ mgr.connection_state = "NotConnected")
          => (ret' = [ok |-> TRUE, val |-> <<>>] /\ NoIo(io'))]_vars

\* C8: with an I/O failure recorded at time t, every reconnect_if_needed call
\* made before t + 5000 returns false, leaves Cooldown and performs no open;
\* a call made at or after t + 5000, the reconnection still outstanding,
\* performs exactly one open.
C8_CooldownGatesReconnect ==
    [][(op'.name = "reconnect_if_needed" /\ mgr.last_disconnect_ms > 0)
       => IF clock < mgr.last_disconnect_ms + 5000
          THEN ret' = FALSE /\ mgr'.connection_state = "Cooldown" /\ Opens(io') = 0
          ELSE mgr.connection_state \in {"Disconnected", "Cooldown"}
                  => Opens(io') = 1]_vars

\* C9: reconnect_if_needed called in Connected returns true, called in
\* NotConnected returns false; either way it performs no open and changes no
\* controller state.
C9_ReconnectNoOpWhenNotFailed ==
    [][(op'.name = "reconnect_if_needed"
        /\ mgr.connection_state \in {"Connected", "NotConnected"})
       => (/\ ret' = (mgr.connection_state = "Connected")
           /\ Opens(io') = 0 /\ io' = <<>>
           /\ mgr' = mgr)]_vars

\* C9 witness: reconnect_if_needed has returned true without any I/O, which
\* it does in Connected only
C9_Witness ==
    /\ op.name = "reconnect_if_needed" /\ ret = TRUE /\ io = <<>>
    /\ mgr.connection_state = "Connected"


(***************************************************************************)
(* verify_feature_safety over every 16-bit identifier                      *)
(***************************************************************************)
InitVerify ==
    /\ mgr = from_config(DefaultConfig)
    /\ clock = StartMs
    /\ dev = NativeDev
    /\ op = Idle
    /\ ret = <<>>
    /\ io = <<>>
    /\ prev = NoPrev
    /\ lock = None
    /\ hpc = <<>>
    /\ chan = <<>>
    /\ fin \in U16
    /\ fout = <<>>

Verify ==
    /\ fout = <<>>
    /\ fout' = <<verify_feature_safety(fin)>>
    /\ UNCHANGED <<mgr, clock, dev, op, ret, io, prev, lockVars, fin>>

NextVerify == Verify

SpecVerify == InitVerify /\ [][NextVerify]_vars

\* C1: for every 16-bit identifier id, verify_feature_safety(id) returns the
\* SafetyViolation error carrying feature_id = id if and only if id is one of
\* 0x1B04, 0x8060, 0x8100, 0x8090, 0x8110, 0x1BC0, 0x1815; for every other
\* identifier, those of the allowed list included, it returns success.
C1_VerifyFailsExactlyOnForbidden ==
    fout /= <<>> =>
        /\ (fin \in {\H1B04, \H8060, \H8100, \H8090, \H8110, \H1BC0, \H1815})
             <=> (~fout[1].res.ok)
        /\ ~fout[1].res.ok =>
             fout[1].res.err = [kind |-> "SafetyViolation", feature_id |-> fin]
        /\ fout[1].res.ok => fout[1].res = [ok |-> TRUE, val |-> <<>>]
        /\ (\E i \in 1..Len(SAFELIST) : SAFELIST[i] = fin) => fout[1].res.ok

\* C1 witness: verify has run on the forbidden identifier 0x1815 and failed
C1_Witness ==
    fout /= <<>> /\ fin = \H1815 /\ ~fout[1].res.ok

(***************************************************************************)
(* The operations against devices with longer feature tables               *)
(***************************************************************************)
\* positions of the feature tables of the devices below
MaxFeatures == 11

\* a table of n positions holding DEVICE_NAME except where at says otherwise
SparseTable(n, at) ==
    [i \in 1..n |-> IF i \in DOMAIN at THEN at[i] ELSE DEVICE_NAME]

ForbiddenIds == {\H1B04, \H8060, \H8100, \H8090, \H8110, \H1BC0, \H1815}
HapticIds == {MX_MASTER_4_HAPTIC, MX4_HAPTIC_ALT, FORCE_FEEDBACK}
\* where the devices below report a forbidden identifier
ForbiddenPlaces == {2, MaxFeatures} \cup ({MX4_HAPTIC_FEATURE_INDEX} \cap 1..MaxFeatures)

\* a haptic identifier at position 3, DPI at 4, a forbidden identifier at fp
DevWith(h, fp, f) ==
    [conn |-> "Bolt", ping |-> "echo", dpi |-> 800,
     table |-> SparseTable(MaxFeatures,
                  (1 :> I_FEATURE_SET) @@ (3 :> h) @@ (4 :> ADJUSTABLE_DPI) @@ (fp :> f))]

\* a forbidden identifier reported twice, a haptic identifier twice, and a
\* position the device does not answer for
DevOdd ==
    [conn |-> "Usb", ping |-> "echo", dpi |-> 800,
     table |-> SparseTable(MaxFeatures,
                  (1 :> I_FEATURE_SET) @@ (2 :> ONBOARD_PROFILES) @@ (3 :> FORCE_FEEDBACK)
                  @@ (4 :> ADJUSTABLE_DPI) @@ (5 :> NOREPLY) @@ (6 :> ONBOARD_PROFILES)
                  @@ (7 :> FORCE_FEEDBACK) @@ (8 :> MX_MASTER_4_HAPTIC))]

RichDevices ==
    {DevWith(h, fp, f) : h \in HapticIds, fp \in ForbiddenPlaces, f \in ForbiddenIds}
    \cup {DevOdd}

InitFrames ==
    /\ mgr = from_config(DefaultConfig)
    /\ clock = StartMs
    /\ dev \in RichDevices
    /\ op = Idle
    /\ ret = <<>>
    /\ io = <<>>
    /\ prev = NoPrev
    /\ lock = None
    /\ hpc = <<>>
    /\ chan = <<>>
    /\ fin = <<>>
    /\ fout = <<>>

NextFrames ==
    \/ Return
    \/ Connect
    \/ Emit
    \/ Pulse
    \/ DpiSupported
    \/ GetDpi
    \/ SetDpi
    \/ GetDpiList

SpecFrames == InitFrames /\ [][NextFrames]_vars

\* the identifier the device holds at a feature index; index 0 is the root
FeatureAt(dv, idx) == IF idx = 0 THEN I_ROOT ELSE DevIdAt(dv, idx)

\* C2: no frame an operation writes carries a feature-index byte that is, in
\* the device's own table, the index of a forbidden identifier; the
\* native-waveform frame of emit included.
C2_NoFrameAddressesForbidden ==
    \A i \in WritesOf(io) : FeatureAt(dev, B(io[i].frame, 2)) \notin ForbiddenIds

\* C3: after discovery the session's Feature Table holds no forbidden
\* identifier, and no capability index (native haptic, legacy haptic, DPI) is
\* the index of a forbidden identifier.
C3_DiscoveryDiscardsForbidden ==
    IsSome(mgr.device) =>
        /\ \A id \in DOMAIN Unwrap(mgr.device).feature_table : id \notin ForbiddenIds
        /\ \A idx \in {Unwrap(mgr.device).feature_table[id] :
                          id \in DOMAIN Unwrap(mgr.device).feature_table} :
              FeatureAt(dev, idx) \notin ForbiddenIds
        /\ \A cap \in {Unwrap(mgr.device).mx4_haptic_feature_index,
                       Unwrap(mgr.device).haptic_feature_index,
                       Unwrap(mgr.device).dpi_feature_index} :
              IsSome(cap) => FeatureAt(dev, Unwrap(cap)) \notin ForbiddenIds

\* C3 witness: discovery ran to the end on a device that reports a forbidden
\* identifier twice and leaves one position unanswered
C3_Witness ==
    /\ op.name = "connect" /\ op.fault = NoFault /\ dev = DevOdd
    /\ IsSome(mgr.device)
    /\ Unwrap(mgr.device).haptic_feature_index = Some(7)
    /\ Unwrap(mgr.device).mx4_haptic_feature_index = Some(8)

(***************************************************************************)
(* IPC call-handlers sharing the controller: Arc<Mutex<HapticManager>>     *)
(***************************************************************************)
\* handlers running at once, and calls each of them serves
NHandlers == 2
MaxCalls == 1

Handlers == 1..NHandlers

\* Mutex::lock with no regard to the holder
MutexNeverBlocks(l) == TRUE

\* Mutex::lock returns once no other thread holds the guard
MutexFree(l) == l = None

\* the methods of the IPC interface that take the lock
HandlerCalls ==
    {[name |-> "trigger_haptic", arg |-> "MenuAppear"],
     [name |-> "get_dpi", arg |-> <<>>],
     [name |-> "set_dpi", arg |-> 1600]}

\* what a handler does with the guard: the controller operation it calls
Locked(call, m, cx, t) ==
    IF call.name = "trigger_haptic" THEN emit(m, cx, t, call.arg)
    ELSE IF call.name = "get_dpi"
    THEN With(get_dpi(m, cx, TRUE), LAMBDA r : [m |-> r.m, cx |-> r.cx, t |-> t])
    ELSE With(set_dpi(m, cx, TRUE, call.arg), LAMBDA r : [m |-> r.m, cx |-> r.cx, t |-> t])

\* the channel events of an I/O log
OnChannel(log) == SelectSeq(log, LAMBDA ev : ev.k \in {"drain", "write", "poll"})

HIdle(n) == [pc |-> "idle", calls |-> n, call |-> <<>>, todo |-> <<>>, m |-> <<>>, t |-> 0]

InitLock ==
    /\ dev \in {NativeDev, LegacyDev}
    /\ mgr = connect(from_config(DefaultConfig), NewCx(dev, NoFault), TRUE).m
    /\ clock = StartMs
    /\ op = Idle
    /\ ret = <<>>
    /\ io = <<>>
    /\ prev = NoPrev
    /\ lock = None
    /\ hpc = [h \in Handlers |-> HIdle(0)]
    /\ chan = <<>>
    /\ fin = <<>>
    /\ fout = <<>>

\* a method call arrives at handler h
HCall(h) ==
    /\ hpc[h].pc = "idle" /\ hpc[h].calls < MaxCalls
    /\ \E call \in HandlerCalls :
          hpc' = [hpc EXCEPT ![h] = [@ EXCEPT !.pc = "locking", !.call = call]]
    /\ UNCHANGED <<mgr, clock, dev, op, ret, io, prev, lock, chan, pureVars>>

\* haptic_manager.lock() returns the guard; the operation starts
HAcquire(h) ==
    /\ hpc[h].pc = "locking"
    /\ MutexFree(lock)
    /\ lock' = Some(h)
    /\ \E r \in {Locked(hpc[h].call, mgr, NewCx(dev, NoFault), clock)} :
            /\ r.t \in ClockPoints
            /\ hpc' = [hpc EXCEPT ![h] = [@ EXCEPT !.pc = "holding",
                                                    !.todo = OnChannel(r.cx.log),
                                                    !.m = r.m, !.t = r.t]]
    /\ UNCHANGED <<mgr, clock, dev, op, ret, io, prev, chan, pureVars>>

\* the operation's next event on the channel
HStep(h) ==
    /\ hpc[h].pc = "holding" /\ hpc[h].todo /= <<>>
    /\ chan' = Append(chan, [h |-> h, n |-> hpc[h].calls, ev |-> Head(hpc[h].todo).k])
    /\ hpc' = [hpc EXCEPT ![h] = [@ EXCEPT !.todo = Tail(@)]]
    /\ UNCHANGED <<mgr, clock, dev, op, ret, io, prev, lock, pureVars>>

\* the operation returns and the guard is dropped
HRelease(h) ==
    /\ hpc[h].pc = "holding" /\ hpc[h].todo = <<>>
    /\ mgr' = hpc[h].m
    /\ clock' = IF hpc[h].t > clock THEN hpc[h].t ELSE clock
    /\ lock' = IF lock = Some(h) THEN None ELSE lock
    /\ hpc' = [hpc EXCEPT ![h] = HIdle(@.calls + 1)]
    /\ UNCHANGED <<dev, op, ret, io, prev, chan, pureVars>>

NextLock ==
    \E h \in Handlers : HCall(h) \/ HAcquire(h) \/ HStep(h) \/ HRelease(h)

SpecLock == InitLock /\ [][NextLock]_vars

\* C4: each operation of a handler holds the lock from its start to its end,
\* so at most one exchange is in progress on the session at any time and the
\* frames of two exchanges never interleave on the channel: once the channel
\* passes from one operation's events to another's, the first operation's
\* never appear again.
C4_OperationsSerialize ==
    /\ \A h \in Handlers : hpc[h].pc = "holding" => lock = Some(h)
    /\ Cardinality({h \in Handlers : hpc[h].pc = "holding"}) <= 1
    /\ \A j, k \in DOMAIN chan :
          (j < k /\ <<chan[j].h, chan[j].n>> /= <<chan[j + 1].h, chan[j + 1].n>>)
             => <<chan[k].h, chan[k].n>> /= <<chan[j].h, chan[j].n>>

\* C4 witness: a handler is in the middle of its exchange, holding the lock,
\* while another handler waits for the lock
C4_Witness ==
    /\ \E h \in Handlers : hpc[h].pc = "holding" /\ hpc[h].todo /= <<>>
                           /\ \E i \in DOMAIN chan : chan[i].h = h
    /\ \E h \in Handlers : hpc[h].pc = "locking"

(***************************************************************************)
(* Debounce: emit calls following one another on a connected controller    *)
(***************************************************************************)
InitDebounce ==
    /\ dev \in Devices
    /\ mgr \in {connect(from_config(cfg), NewCx(dev, NoFault), TRUE).m : cfg \in Configs}
    /\ clock = StartMs
    /\ op = Idle
    /\ ret = <<>>
    /\ io = <<>>
    /\ prev = NoPrev
    /\ lock = None
    /\ hpc = <<>>
    /\ chan = <<>>
    /\ fin = <<>>
    /\ fout = <<>>

EmitAgain == EmitStep(TRUE)

NextDebounce ==
    \/ Return
    \/ Tick
    \/ EmitAgain

SpecDebounce == InitDebounce /\ [][NextDebounce]_vars

\* whether the device offers native waveform playback
NativeCapable(dv) ==
    \E i \in 1..Len(dv.table) : dv.table[i] \in {MX_MASTER_4_HAPTIC, MX4_HAPTIC_ALT}

\* two emit calls for the same event, the second made less than debounce_ms
\* after the first, and the first one wrote to the device
TwoEmitsWithinDebounce ==
    /\ op.name = "emit" /\ prev.name = "emit" /\ prev.first /= <<>>
    /\ prev.first[1].arg = prev.arg
    /\ prev.first[1].writes > 0
    /\ prev.t0 - prev.first[1].t0 < mgr.debounce_ms

\* C10 as stated: two emit calls for an event made less than debounce_ms apart
\* result in exactly one device write: the first call writes, the second is
\* suppressed and returns success.
C10_ExactlyOneWrite ==
    TwoEmitsWithinDebounce =>
        /\ prev.first[1].writes = 1
        /\ prev.writes = 0 /\ Writes(io) = 0
        /\ ret = [ok |-> TRUE, val |-> <<>>]

\* C10 amended: the two calls result in the writes of the first call only,
\* one waveform frame on a device with native playback, one pulse request
\* for each pulse of the event's pattern on a legacy-only device; the second
\* call is suppressed and returns success.
C10_FirstWritesSecondSuppressed ==
    TwoEmitsWithinDebounce =>
        /\ prev.first[1].writes =
              IF NativeCapable(dev) THEN 1 ELSE pulse_count(pattern(prev.arg))
        /\ prev.writes = 0 /\ Writes(io) = 0
        /\ ret = [ok |-> TRUE, val |-> <<>>]

\* C10 witness: a second SelectionConfirm within the debounce window of a
\* first one that sent the two pulses of its pattern
C10_Witness ==
    /\ TwoEmitsWithinDebounce
    /\ prev.arg = "SelectionConfirm" /\ prev.first[1].writes = 2
    /\ Writes(io) = 0

(***************************************************************************)
(* Slice changes: emit_slice_change, reset_slice_tracking, emit and pulse  *)
(* following one another, on a controller that is enabled or disabled and  *)
(* connected or not.  Here prev is the history of the calls, newest first: *)
(* prev[1] is the call whose result is in op, ret and io (or the last one  *)
(* returned), with the controller as it was when the call was made in m0.  *)
(***************************************************************************)
\* a configured re-entry window between the slice window and the default one
MidReentryMs == 30
SliceIndexes == {3, 4}

SliceConfigs ==
    {[DefaultConfig EXCEPT !.enabled = e, !.reentry_debounce_ms = r] :
        e \in BOOLEAN, r \in {DEFAULT_REENTRY_DEBOUNCE_MS, MidReentryMs}}

SliceFaults == {NoFault}
\* the event emit is called with between slice changes
SliceEvents == {"MenuAppear"}
\* fine clock steps taken
MaxSliceFine == 3

\* a call in the history: what was called, when, what it returned, whether
\* it sent a command to the device (a write that succeeded), and the
\* controller before the call
CallRecord(name, arg, t0, val, log, m0) ==
    [name |-> name, arg |-> arg, t0 |-> t0, val |-> val,
     writes |-> Writes(log), sent |-> Writes(log) > 0 /\ ~FailedWrite(log),
     m0 |-> <<m0>>]

\* the history keeps three calls (a slice change, the one suppressed after it
\* and the one after that); older calls are kept without the snapshot
Pushed(hist, rec) ==
    <<rec>> \o [i \in 1..(IF Len(hist) < 3 THEN Len(hist) ELSE 2) |->
                    [hist[i] EXCEPT !.m0 = <<>>]]

InitSlice ==
    /\ dev \in Devices
    /\ mgr \in {connect(from_config(cfg), NewCx(dev, NoFault), avail).m :
                    cfg \in SliceConfigs, avail \in BOOLEAN}
    /\ IsSome(mgr.device) \/ dev = PlainDev
    /\ clock = StartMs
    /\ op = Idle
    /\ ret = <<>>
    /\ io = <<>>
    /\ prev = <<>>
    /\ lock = None
    /\ hpc = <<>>
    /\ chan = <<>>
    /\ fin = <<>>
    /\ fout = <<>>

EmitSliceChange ==
    /\ op = Idle
    /\ \E slice_index \in SliceIndexes, f \in SliceFaults :
        \E r \in {emit_slice_change(mgr, NewCx(dev, f), clock, slice_index)} :
            /\ Used(f, TRUE, r.cx)
            /\ mgr' = r.m /\ clock' = r.t
            /\ op' = Call("emit_slice_change", slice_index, f, TRUE)
            /\ ret' = r.val /\ io' = r.cx.log
            /\ prev' = Pushed(prev, CallRecord("emit_slice_change", slice_index, clock,
                                               r.val, r.cx.log, mgr))
            /\ UNCHANGED <<dev, lockVars, pureVars>>

ResetSliceTracking ==
    /\ op = Idle
    /\ mgr' = reset_slice_tracking(mgr)
    /\ op' = Call("reset_slice_tracking", <<>>, NoFault, TRUE)
    /\ ret' = <<>> /\ io' = <<>>
    /\ prev' = Pushed(prev, CallRecord("reset_slice_tracking", <<>>, clock, <<>>, <<>>, mgr))
    /\ UNCHANGED <<clock, dev, lockVars, pureVars>>

\* emit and pulse between slice changes; the history starts over
SliceEmit ==
    /\ op = Idle
    /\ \E event \in SliceEvents, f \in SliceFaults :
        \E r \in {emit(mgr, NewCx(dev, f), clock, event)} :
            /\ Used(f, TRUE, r.cx)
            /\ mgr' = r.m /\ clock' = r.t
            /\ op' = Call("emit", event, f, TRUE) /\ ret' = r.val /\ io' = r.cx.log
            /\ prev' = <<CallRecord("emit", event, clock, r.val, r.cx.log, mgr)>>
            /\ UNCHANGED <<dev, lockVars, pureVars>>

SlicePulse ==
    /\ op = Idle
    /\ \E haptic \in PulseProfiles, f \in SliceFaults :
        \E r \in {pulse(mgr, NewCx(dev, f), clock, haptic)} :
            /\ Used(f, TRUE, r.cx)
            /\ mgr' = r.m
            /\ op' = Call("pulse", haptic, f, TRUE) /\ ret' = r.val /\ io' = r.cx.log
            /\ prev' = <<CallRecord("pulse", haptic, clock, r.val, r.cx.log, mgr)>>
            /\ UNCHANGED <<clock, dev, lockVars, pureVars>>

\* time passes between calls, in fine steps
SliceTick ==
    /\ op = Idle
    /\ clock + FineStepMs <= StartMs + MaxSliceFine * FineStepMs
    /\ clock' = clock + FineStepMs
    /\ UNCHANGED <<mgr, dev, op, ret, io, prev, lockVars, pureVars>>

NextSlice ==
    \/ Return
    \/ SliceTick
    \/ EmitSliceChange
    \/ ResetSliceTracking
    \/ SliceEmit
    \/ SlicePulse

SpecSlice == InitSlice /\ [][NextSlice]_vars

\* the call whose result is in op, ret and io, and the controller before it
Cur == prev[1]
Before == prev[1].m0[1]
\* the k-th newest call of the history is emit_slice_change
IsSliceCall(k) == Len(prev) >= k /\ prev[k].name = "emit_slice_change"
\* the slice state of the controller was left as it was
SliceStateKept ==
    /\ mgr.last_slice_index = Before.last_slice_index
    /\ mgr.last_slice_change_ms = Before.last_slice_change_ms

\* emit_slice_change(s) has just followed emit_slice_change(s), less than
\* reentry_debounce_ms later
SameSliceAgain ==
    /\ op.name = "emit_slice_change" /\ IsSliceCall(1) /\ IsSliceCall(2)
    /\ prev[2].arg = Cur.arg
    /\ Cur.t0 - prev[2].t0 < Before.reentry_debounce_ms

\* C11 as stated: emit_slice_change(s) followed by emit_slice_change(s) for
\* the same slice less than reentry_debounce_ms later: the second call
\* returns false, performs no device write and changes neither the tracked
\* last slice nor the last-slice-change timestamp.
C11_SecondSameSliceSuppressed ==
    SameSliceAgain => ret = FALSE /\ Writes(io) = 0 /\ SliceStateKept

\* C11 amended: of the two calls at most one writes to the device; when the
\* first call returned true, the second returns false, performs no device
\* write and changes neither the tracked last slice nor the timestamp.
C11_ReentryAfterEmission ==
    SameSliceAgain =>
        /\ ~(prev[2].writes > 0 /\ Writes(io) > 0)
        /\ prev[2].val = TRUE => ret = FALSE /\ Writes(io) = 0 /\ SliceStateKept

\* C11 witness: the first call sent a command, the second one, a fine step
\* later on the same slice, was suppressed
C11_Witness ==
    /\ SameSliceAgain /\ prev[2].sent /\ Cur.t0 > prev[2].t0
    /\ ret = FALSE

\* emit_slice_change(b) has just followed an emit_slice_change(a) that
\* emitted, with b different from a, less than slice_debounce_ms later
OtherSliceSoon(k) ==
    /\ IsSliceCall(k) /\ IsSliceCall(k + 1)
    /\ prev[k + 1].val = TRUE /\ prev[k + 1].sent
    /\ prev[k].arg /= prev[k + 1].arg
    /\ prev[k].t0 - prev[k + 1].t0 < mgr.slice_debounce_ms

\* C12: after emit_slice_change(a) has emitted, emit_slice_change(b), b /= a,
\* less than slice_debounce_ms later returns false, writes nothing and sets
\* the tracked last slice to b; a following emit_slice_change(b) made once
\* slice_debounce_ms has elapsed since that emission emits.
C12_FinalSliceOfSweepEmits ==
    /\ op.name = "emit_slice_change" /\ OtherSliceSoon(1) =>
          ret = FALSE /\ Writes(io) = 0 /\ mgr.last_slice_index = Some(Cur.arg)
    /\ op.name = "emit_slice_change" /\ IsSliceCall(1) /\ OtherSliceSoon(2)
         /\ Cur.arg = prev[2].arg
         /\ Cur.t0 - prev[3].t0 >= Before.slice_debounce_ms =>
          ret = TRUE /\ Writes(io) > 0

\* C13: emit_slice_change returns true only if a haptic command was sent to
\* the device during the call, and the slice timestamp is updated only in
\* such a call.
C13_TrueOnlyIfSent ==
    op.name = "emit_slice_change" /\ IsSliceCall(1) =>
        /\ ret = TRUE => Cur.sent
        /\ mgr.last_slice_change_ms /= Before.last_slice_change_ms => Cur.sent

\* C14: with haptics disabled every emit and pulse call returns success and
\* every emit_slice_change call returns false, device connected or not; the
\* call performs no device I/O and leaves the controller as it was.
C14_DisabledIsNoOp ==
    op.name \in {"emit", "pulse", "emit_slice_change"} /\ ~Before.enabled =>
        /\ ret = IF op.name = "emit_slice_change" THEN FALSE ELSE Ok(<<>>)
        /\ io = <<>>
        /\ mgr = Before

\* C14 witness: a disabled controller holding a haptic-capable session was
\* asked for a slice change
C14_Witness ==
    /\ op.name = "emit_slice_change" /\ ~Before.enabled
    /\ IsSome(mgr.device) /\ haptic_supported(Unwrap(mgr.device))

\* C15: reset_slice_tracking sets the tracked last slice to none and the
\* last-slice-change timestamp to 0 and changes nothing else; the next
\* emit_slice_change(s) of an enabled controller, for any s, passes both the
\* re-entry and the rapid-movement suppression (it records s and the time
\* of the call and returns true).
C15_ResetClearsSliceState ==
    /\ op.name = "reset_slice_tracking" =>
          /\ mgr = [Before EXCEPT !.last_slice_index = None, !.last_slice_change_ms = 0]
          /\ io = <<>>
    /\ op.name = "emit_slice_change" /\ Len(prev) >= 2
         /\ prev[2].name = "reset_slice_tracking" /\ Before.enabled =>
          /\ ret = TRUE
          /\ mgr.last_slice_index = Some(Cur.arg)
          /\ mgr.last_slice_change_ms = Cur.t0

\* C15 witness: a slice was emitted, the tracking was reset, and the same
\* slice was emitted again at the same instant
C15_Witness ==
    /\ op.name = "emit_slice_change" /\ Len(prev) >= 3
    /\ prev[2].name = "reset_slice_tracking"
    /\ prev[3].name = "emit_slice_change" /\ prev[3].arg = Cur.arg /\ prev[3].sent
    /\ prev[3].t0 = Cur.t0
    /\ ret = TRUE

(***************************************************************************)
(* hidpp_request read by read.  The channel decides what every read        *)
(* returns; the request is in hpc:                                         *)
(*   pc        "idle", "drain" (in drain_buffer), "write", "poll" (in the  *)
(*             read loop) or "done",                                       *)
(*   d         the session, feature_index and function the arguments,      *)
(*   attempts  the loop's counter, reads the reads made since the write.   *)
(* chan holds what the last read returned, ret the result of the call.     *)
(***************************************************************************)
\* one iteration of the read loop on a read returning ev
PollReadAnyTag(d, feature_index, function, ev, attempts) ==
    LET response == IF ev.k = "frame" THEN Take(ev.bytes, 20) ELSE <<>>
        again == IF attempts + 1 > MAX_ATTEMPTS
                 THEN [k |-> "timeout", attempts |-> attempts + 1]
                 ELSE [k |-> "again", attempts |-> attempts + 1]
    IN  IF ev.k = "ioerr" THEN [k |-> "none", attempts |-> attempts]
        ELSE IF ev.k = "frame" /\ Len(response) >= 7 /\ B(response, 0) \in {SHORT, LONG} THEN
            IF /\ B(response, 1) = d.device_index
               /\ B(response, 2) = feature_index
               /\ (B(response, 3) \div 16) % 16 = function
            THEN [k |-> "some", resp |-> response, attempts |-> attempts]
            ELSE IF B(response, 2) = \HFF THEN [k |-> "none", attempts |-> attempts]
            ELSE IF B(response, 2) = \H8F THEN [k |-> "none", attempts |-> attempts]
            ELSE again
        ELSE again

PollReadWithoutLegacyCheck(d, feature_index, function, ev, attempts) ==
    LET response == IF ev.k = "frame" THEN Take(ev.bytes, 20) ELSE <<>>
        again == IF attempts + 1 > MAX_ATTEMPTS
                 THEN [k |-> "timeout", attempts |-> attempts + 1]
                 ELSE [k |-> "again", attempts |-> attempts + 1]
    IN  IF ev.k = "ioerr" THEN [k |-> "none", attempts |-> attempts]
        ELSE IF ev.k = "frame" /\ Len(response) >= 7 /\ B(response, 0) \in {SHORT, LONG} THEN
            IF /\ B(response, 1) = d.device_index
               /\ B(response, 2) = feature_index
               /\ (B(response, 3) \div 16) % 16 = function
               /\ B(response, 3) % 16 = SOFTWARE_ID
            THEN [k |-> "some", resp |-> response, attempts |-> attempts]
            ELSE IF B(response, 2) = \HFF THEN [k |-> "none", attempts |-> attempts]
            ELSE again
        ELSE again

PollRead(d, feature_index, function, ev, attempts) ==
    LET response == IF ev.k = "frame" THEN Take(ev.bytes, 20) ELSE <<>>
        again == IF attempts + 1 > MAX_ATTEMPTS
                 THEN [k |-> "timeout", attempts |-> attempts + 1]
                 ELSE [k |-> "again", attempts |-> attempts + 1]
    IN  IF ev.k = "ioerr" THEN [k |-> "none", attempts |-> attempts]
        ELSE IF ev.k = "frame" /\ Len(response) >= 7 /\ B(response, 0) \in {SHORT, LONG} THEN
            IF /\ B(response, 1) = d.device_index
               /\ B(response, 2) = feature_index
               /\ (B(response, 3) \div 16) % 16 = function
               /\ B(response, 3) % 16 = SOFTWARE_ID
            THEN [k |-> "some", resp |-> response, attempts |-> attempts]
            ELSE IF B(response, 2) = \HFF THEN [k |-> "none", attempts |-> attempts]
            ELSE IF B(response, 2) = \H8F THEN [k |-> "none", attempts |-> attempts]
            ELSE again
        ELSE again

\* drain_buffer giving up after the first read
DrainReadOnce(ev) == FALSE

\* one read of drain_buffer: TRUE when the loop goes on
DrainRead(ev) == ev.k = "frame"

\* the requests made: the ping, a feature lookup, a DPI read
Requests ==
    {[feature_index |-> 0, function |-> 1, params |-> <<0, 0, \HAA>>],
     [feature_index |-> 0, function |-> 0, params |-> <<Hi(ADJUSTABLE_DPI), Lo(ADJUSTABLE_DPI), 0>>],
     [feature_index |-> 3, function |-> 2, params |-> <<0>>]}

RequestSessions == {NewSession(c) : c \in {"Bolt", "Usb"}}

\* a frame of n bytes with the given header, payload bytes p
Frame(kind, device_index, feature_index, fnsw, p, n) ==
    [i \in 1..n |-> CASE i = 1 -> kind [] i = 2 -> device_index [] i = 3 -> feature_index
                      [] i = 4 -> fnsw [] OTHER -> p]

\* a device index, a request tag other than the session's and the client's
OtherDevice(d) == IF d.device_index = \H01 THEN \H03 ELSE \H01
OtherTag == \H0A

\* what a read can return while the request (d, q) is made
Reads(d, q) ==
    LET di == d.device_index
        fi == q.feature_index
        own == FnSw(q.function, SOFTWARE_ID)
    IN  {[k |-> "wouldblock"], [k |-> "ioerr"]} \cup
        {[k |-> "frame", bytes |-> b] : b \in
            {\* the reply, short and long, and a long reply cut short
             Frame(SHORT, di, fi, own, \HAA, 7),
             Frame(LONG, di, fi, own, \HAA, 20),
             Frame(LONG, di, fi, own, \HAA, 9),
             \* replies differing in one field
             Frame(SHORT, OtherDevice(d), fi, own, 0, 7),
             Frame(SHORT, di, fi + 1, own, 0, 7),
             Frame(SHORT, di, fi, FnSw(q.function + 1, SOFTWARE_ID), 0, 7),
             Frame(LONG, di, fi, FnSw(q.function, OtherTag), 0, 20),
             \* a notification
             Frame(SHORT, di, 5, FnSw(0, 0), 1, 7),
             \* error frames: answering this request, answering other
             \* software, legacy, from another device
             <<SHORT, di, \HFF, fi, own, 2, 0>>,
             <<SHORT, di, \HFF, fi, FnSw(q.function, OtherTag), 5, 0>>,
             <<SHORT, di, \H8F, fi, own, 1, 0>>,
             <<SHORT, OtherDevice(d), \H8F, 2, FnSw(1, OtherTag), 1, 0>>,
             \* a report of another kind, a short read, a zero-length read
             Frame(\H20, di, \HFF, 0, 0, 15),
             <<SHORT, di, fi>>,
             <<>>}}

\* most frames buffered on the channel when a request starts
MaxStale == 2

\* what the channel can hold when hidpp_request is called: replies to an
\* earlier request that match the coming one on all four fields, and
\* notifications, in any order
Buffered(d, q) ==
    UNION {[1..n -> {[k |-> "frame",
                      bytes |-> Frame(SHORT, d.device_index, q.feature_index,
                                      FnSw(q.function, SOFTWARE_ID), \HAA, 7)],
                     [k |-> "frame",
                      bytes |-> Frame(SHORT, d.device_index, 5, FnSw(0, 0), 1, 7)]}] :
              n \in 0..MaxStale}

\* The channel is a queue: a read returns the oldest frame it holds; only
\* when it holds none does the read report would-block or an error, or
\* return a frame that has arrived since.
ReadsNow(h) == IF h.stale /= <<>> THEN {Head(h.stale)} ELSE Reads(h.d, h.q)
AfterRead(h) == IF h.stale /= <<>> THEN Tail(h.stale) ELSE <<>>

ReqIdle == [pc |-> "idle"]

InitRequest ==
    /\ mgr = from_config(DefaultConfig)
    /\ clock = StartMs
    /\ dev = NativeDev
    /\ op = Idle
    /\ ret = <<>>
    /\ io = <<>>
    /\ prev = NoPrev
    /\ lock = None
    /\ hpc = ReqIdle
    /\ chan = <<>>
    /\ fin = <<>>
    /\ fout = <<>>

reqFrame == <<mgr, clock, dev, op, io, prev, lock, fin, fout>>

\* hidpp_request is called
ReqCall ==
    /\ hpc.pc = "idle"
    /\ \E d \in RequestSessions, q \in Requests :
        \E stale \in Buffered(d, q) :
          hpc' = [pc |-> "drain", d |-> d, q |-> q, attempts |-> 0, reads |-> 0,
                  stale |-> stale, buffered |-> Len(stale), stale_returned |-> FALSE]
    /\ chan' = <<>> /\ ret' = <<>>
    /\ UNCHANGED reqFrame

\* drain_buffer reads once
ReqDrain ==
    /\ hpc.pc = "drain"
    /\ \E ev \in ReadsNow(hpc) :
          /\ chan' = <<ev>>
          /\ hpc' = [hpc EXCEPT !.pc = IF DrainRead(ev) THEN "drain" ELSE "write",
                                !.stale = AfterRead(hpc)]
    /\ UNCHANGED ret
    /\ UNCHANGED reqFrame

\* the request frame is written; a failed write ends the call
ReqWrite ==
    /\ hpc.pc = "write"
    /\ \E wok \in BOOLEAN :
          /\ hpc' = [hpc EXCEPT !.pc = IF wok THEN "poll" ELSE "done"]
          /\ ret' = IF wok THEN ret ELSE <<[k |-> "none"]>>
    /\ chan' = <<>>
    /\ UNCHANGED reqFrame

\* the read loop reads once
ReqPoll ==
    /\ hpc.pc = "poll"
    /\ \E ev \in ReadsNow(hpc) :
        \E r \in {PollRead(hpc.d, hpc.q.feature_index, hpc.q.function, ev, hpc.attempts)} :
          /\ chan' = <<ev>>
          /\ hpc' = [hpc EXCEPT !.pc = IF r.k = "again" THEN "poll" ELSE "done",
                                !.attempts = r.attempts,
                                !.reads = @ + 1,
                                !.stale = AfterRead(hpc),
                                !.stale_returned = @ \/ (hpc.stale /= <<>> /\ r.k = "some")]
          /\ ret' = IF r.k = "again" THEN ret ELSE <<r>>
    /\ UNCHANGED reqFrame

\* the caller takes the result
ReqReturn ==
    /\ hpc.pc = "done"
    /\ hpc' = ReqIdle /\ chan' = <<>> /\ ret' = <<>>
    /\ UNCHANGED reqFrame

NextRequest ==
    \/ ReqCall
    \/ ReqDrain
    \/ ReqWrite
    \/ ReqPoll
    \/ ReqReturn

\* the thread making the request keeps running
SpecRequest == InitRequest /\ [][NextRequest]_vars /\ WF_vars(NextRequest)

\* the frame matches the outstanding request on device index, feature
\* index, function and request tag
MatchesRequest(bytes) ==
    /\ Len(bytes) >= 4
    /\ B(bytes, 1) = hpc.d.device_index
    /\ B(bytes, 2) = hpc.q.feature_index
    /\ (B(bytes, 3) \div 16) % 16 = hpc.q.function
    /\ B(bytes, 3) % 16 = SOFTWARE_ID
\* a short or long frame of at least 7 bytes
IsFrame(ev) ==
    ev.k = "frame" /\ Len(ev.bytes) >= 7 /\ B(ev.bytes, 0) \in {SHORT, LONG}
\* a frame whose feature-index byte is an error marker
HasErrorMarker(ev) == IsFrame(ev) /\ B(ev.bytes, 2) \in {\HFF, \H8F}
\* an error frame answering the outstanding request: it names the session's
\* device and carries the request's feature index and function/tag byte
AnswersRequest(ev) ==
    /\ HasErrorMarker(ev)
    /\ B(ev.bytes, 1) = hpc.d.device_index
    /\ B(ev.bytes, 3) = hpc.q.feature_index
    /\ B(ev.bytes, 4) = FnSw(hpc.q.function, SOFTWARE_ID)
\* a well-formed frame of other traffic
OtherTraffic(ev) ==
    /\ IsFrame(ev)
    /\ Len(ev.bytes) = (IF B(ev.bytes, 0) = SHORT THEN 7 ELSE 20)
    /\ ~MatchesRequest(ev.bytes)
    /\ ~AnswersRequest(ev)
LastRead == chan[1]
Result == ret[1]

\* C16: whenever the request returns response bytes, they are a short or
\* long frame whose device index is the session's, whose feature index and
\* function are the requested ones and whose tag is SOFTWARE_ID.
C16_ReturnedFrameMatches ==
    hpc.pc = "done" /\ Result.k = "some" =>
        /\ B(Result.resp, 0) \in {SHORT, LONG}
        /\ MatchesRequest(Result.resp)

\* C16 witness: a long reply was returned after other frames were read
C16_Witness ==
    /\ hpc.pc = "done" /\ Result.k = "some"
    /\ B(Result.resp, 0) = LONG /\ Len(Result.resp) = 20
    /\ hpc.reads > 1

\* C17: a well-formed frame of other traffic read while the request is
\* outstanding is ignored: the request goes on polling, or ends by
\* exhausting the attempt budget, and never returns none because of it.
C17_OtherTrafficIgnored ==
    hpc.pc \in {"poll", "done"} /\ hpc.reads > 0 /\ chan /= <<>> /\ OtherTraffic(LastRead) =>
        hpc.pc = "poll" \/ Result.k = "timeout"

\* C18: the request makes at most 100 reads after writing its frame, and
\* the timeout outcome comes with the 100th.
C18_AtMostHundredReads ==
    hpc.pc \in {"poll", "done"} =>
        /\ hpc.reads <= MAX_ATTEMPTS
        /\ hpc.pc = "done" /\ Result.k = "timeout" => hpc.reads = MAX_ATTEMPTS

\* C19: every request call terminates, whatever the channel returns.
C19_RequestTerminates == (hpc.pc = "drain") ~> (hpc.pc = "done")

\* C20: a frame read while the request is outstanding that carries an error
\* marker (0xFF or 0x8F) as feature index and does not match the request
\* ends the call at once with none; no error code is returned.
C20_ErrorFrameYieldsNone ==
    hpc.pc \in {"poll", "done"} /\ hpc.reads > 0 /\ chan /= <<>>
      /\ HasErrorMarker(LastRead) /\ ~MatchesRequest(LastRead.bytes) =>
        /\ hpc.pc = "done"
        /\ Result.k = "none"
        /\ "resp" \notin DOMAIN Result

\* C20 witness: a legacy error frame from another device ended the call
C20_Witness ==
    /\ hpc.pc = "done" /\ chan /= <<>> /\ hpc.reads > 0
    /\ IsFrame(LastRead) /\ B(LastRead.bytes, 2) = \H8F
    /\ B(LastRead.bytes, 1) /= hpc.d.device_index
    /\ Result.k = "none"

(***************************************************************************)
(* Wire codec: HidppShortMessage and HidppLongMessage                      *)
(***************************************************************************)
\* HidppShortMessage::new; (function_id << 4) | (sw_id & 0x0F) on u8: the
\* shift drops the high nibble, the two operands share no bit
short_new(device_index, feature_index, function_id, sw_id) ==
    [report_type |-> SHORT,
     device_index |-> device_index,
     feature_index |-> feature_index,
     function_sw_id |-> ((function_id * 16) % 256) + (sw_id % 16),
     params |-> <<0, 0, 0>>]

\* HidppShortMessage::with_params, params a [u8; 3]
short_with_params(msg, params) == [msg EXCEPT !.params = params]

\* HidppShortMessage::to_bytes
short_to_bytes(msg) ==
    <<msg.report_type, msg.device_index, msg.feature_index, msg.function_sw_id,
      msg.params[1], msg.params[2], msg.params[3]>>

\* from_bytes accepting every report type
short_from_bytes_any_report(bytes) ==
    IF Len(bytes) < 7 THEN None
    ELSE Some([report_type |-> B(bytes, 0),
               device_index |-> B(bytes, 1),
               feature_index |-> B(bytes, 2),
               function_sw_id |-> B(bytes, 3),
               params |-> <<B(bytes, 4), B(bytes, 5), B(bytes, 6)>>])

\* HidppShortMessage::from_bytes
short_from_bytes(bytes) ==
    IF Len(bytes) < 7 \/ B(bytes, 0) /= SHORT THEN None
    ELSE Some([report_type |-> B(bytes, 0),
               device_index |-> B(bytes, 1),
               feature_index |-> B(bytes, 2),
               function_sw_id |-> B(bytes, 3),
               params |-> <<B(bytes, 4), B(bytes, 5), B(bytes, 6)>>])

\* HidppShortMessage::function_id and ::sw_id
short_function_id(msg) == msg.function_sw_id \div 16
short_sw_id(msg) == msg.function_sw_id % 16

\* HidppLongMessage::new
long_new(device_index, feature_index, function_id, sw_id) ==
    [report_type |-> LONG,
     device_index |-> device_index,
     feature_index |-> feature_index,
     function_sw_id |-> ((function_id * 16) % 256) + (sw_id % 16),
     params |-> [i \in 1..16 |-> 0]]

\* HidppLongMessage::with_params: the first min(len, 16) bytes are copied
long_with_params(msg, params) ==
    [msg EXCEPT !.params =
        [i \in 1..16 |-> IF i <= Len(params) THEN params[i] ELSE @[i]]]

\* HidppLongMessage::to_bytes
long_to_bytes(msg) ==
    <<msg.report_type, msg.device_index, msg.feature_index, msg.function_sw_id>>
        \o msg.params

\* from_bytes taking the parameters one byte early
long_from_bytes_params_from_3(bytes) ==
    IF Len(bytes) < 20 \/ B(bytes, 0) /= LONG THEN None
    ELSE Some([report_type |-> B(bytes, 0),
               device_index |-> B(bytes, 1),
               feature_index |-> B(bytes, 2),
               function_sw_id |-> B(bytes, 3),
               params |-> [i \in 1..16 |-> B(bytes, 2 + i)]])

\* HidppLongMessage::from_bytes
long_from_bytes(bytes) ==
    IF Len(bytes) < 20 \/ B(bytes, 0) /= LONG THEN None
    ELSE Some([report_type |-> B(bytes, 0),
               device_index |-> B(bytes, 1),
               feature_index |-> B(bytes, 2),
               function_sw_id |-> B(bytes, 3),
               params |-> [i \in 1..16 |-> B(bytes, 3 + i)]])

(***************************************************************************)
(* SpecCodec: the pure functions of the wire layer applied to inputs       *)
(* drawn from bounded sets.  fin is the input, fout the output.            *)
(***************************************************************************)
\* longest buffer handed to from_bytes
MaxBufferLen == 21

CodecIndexes == {0, 1, \H0B, \HFF}
Nibbles == 0..15
ShortPayloads == {<<a, b, c>> : a \in {0, \HFF}, b \in {0, \HAA}, c \in {0, \HFF}}
LongPayloads == {[i \in 1..16 |-> (a * i + b) % 256] : a \in {0, 17}, b \in {0, \HFF}}

Fields(kind, payloads) ==
    [kind : {kind}, device_index : CodecIndexes, feature_index : {0, \H0B, \HFF},
     function_id : Nibbles, sw_id : Nibbles, params : payloads]

\* buffers of every length up to MaxBufferLen, with a leading byte that is
\* the short marker, the long marker or neither
Buffers ==
    {[i \in 1..n |-> IF i = 1 THEN first ELSE (fill + i) % 256] :
        n \in 0..MaxBufferLen, first \in {SHORT, LONG, 0, \HFF}, fill \in {0, \HAB}}

\* most DPI-list entries that vary in a getSensorDpiList reply
MaxPairs == 3

\* list entries: the terminator, DPI values, a step marker
PairValues == {0, 400, 800, \H2001, \H9000, \HE032}

RECURSIVE PairBytes(_)
PairBytes(values) ==
    IF values = <<>> THEN <<>>
    ELSE <<Hi(Head(values)), Lo(Head(values))>> \o PairBytes(Tail(values))

\* payloads of getSensorDpiList replies: a sensor index and a DPI list,
\* zero-padded to the 16 bytes of a long frame, or the one entry of a short
\* frame, or a list that fills the frame without a terminator
DpiListPayloads ==
    {Pad(<<sensor>> \o PairBytes(values), 16) :
        sensor \in {0, 3}, values \in [1..MaxPairs -> PairValues]}
    \cup {<<sensor>> \o PairBytes(<<v>>) : sensor \in {0, 3}, v \in PairValues}
    \cup {<<0>> \o PairBytes([k \in 1..7 |-> v]) \o <<last>> :
             v \in {400, \HE032}, last \in {0, 1}}

CodecInputs ==
    Fields("short", ShortPayloads) \cup Fields("long", LongPayloads)
        \cup {[kind |-> "buffer", bytes |-> b] : b \in Buffers}
        \cup {[kind |-> "dpi_list", payload |-> p] : p \in DpiListPayloads}

NotRun == [done |-> FALSE]

InitCodec ==
    /\ fin \in CodecInputs
    /\ fout = NotRun
    /\ mgr = <<>> /\ clock = 0 /\ dev = <<>> /\ op = <<>> /\ ret = <<>>
    /\ io = <<>> /\ prev = <<>> /\ lock = <<>> /\ hpc = <<>> /\ chan = <<>>

codecFrame == <<mgr, clock, dev, op, ret, io, prev, lock, hpc, chan, fin>>

\* new(..).with_params(..).to_bytes(), then from_bytes on the result
RoundTripShort ==
    /\ fin.kind = "short" /\ fout = NotRun
    /\ \E bytes \in {short_to_bytes(short_with_params(
                        short_new(fin.device_index, fin.feature_index,
                                  fin.function_id, fin.sw_id), fin.params))} :
          fout' = [done |-> TRUE, bytes |-> bytes, msg |-> short_from_bytes(bytes)]
    /\ UNCHANGED codecFrame

RoundTripLong ==
    /\ fin.kind = "long" /\ fout = NotRun
    /\ \E bytes \in {long_to_bytes(long_with_params(
                        long_new(fin.device_index, fin.feature_index,
                                 fin.function_id, fin.sw_id), fin.params))} :
          fout' = [done |-> TRUE, bytes |-> bytes, msg |-> long_from_bytes(bytes)]
    /\ UNCHANGED codecFrame

\* both from_bytes applied to a received buffer
DecodeBuffer ==
    /\ fin.kind = "buffer" /\ fout = NotRun
    /\ fout' = [done |-> TRUE,
                short |-> short_from_bytes(fin.bytes),
                long |-> long_from_bytes(fin.bytes)]
    /\ UNCHANGED codecFrame

\* get_dpi_list on a session opened to a device that answers
\* getSensorDpiList with the payload fin.payload
GetDpiListOf ==
    /\ fin.kind = "dpi_list" /\ fout = NotRun
    /\ \E dv \in {[dpi_list |-> fin.payload] @@ NativeDev} :
        \E s \in {open(NewCx(dv, NoFault), TRUE)} :
        \E r \in {DeviceGetDpiList(Unwrap(s.val), NewCx(dv, NoFault))} :
            fout' = [done |-> TRUE, list |-> r.val, log |-> r.cx.log]
    /\ UNCHANGED codecFrame

NextCodec == RoundTripShort \/ RoundTripLong \/ DecodeBuffer \/ GetDpiListOf

SpecCodec == InitCodec /\ [][NextCodec]_vars

\* C21: encoding a message built from a device index, a feature index, a
\* function id and a request tag in 0..15 and a payload of 3 (short) or 16
\* (long) bytes, then decoding the bytes, yields a message with the same
\* device index, feature index, function id, request tag and payload.
C21_DecodeInvertsEncode ==
    (fout.done /\ fin.kind \in {"short", "long"}) =>
        /\ IsSome(fout.msg)
        /\ Unwrap(fout.msg).device_index = fin.device_index
        /\ Unwrap(fout.msg).feature_index = fin.feature_index
        /\ short_function_id(Unwrap(fout.msg)) = fin.function_id
        /\ short_sw_id(Unwrap(fout.msg)) = fin.sw_id
        /\ Unwrap(fout.msg).params = fin.params
        /\ Len(fout.bytes) = (IF fin.kind = "short" THEN 7 ELSE 20)

C21_Witness ==
    /\ fout.done /\ fin.kind = "long"
    /\ fin.function_id = 15 /\ fin.sw_id = 15 /\ fin.device_index = \HFF
    /\ fin.params[16] = 15
    /\ IsSome(fout.msg) /\ Unwrap(fout.msg).params[16] = 15

\* C22: decoding as short yields nothing exactly when the buffer has fewer
\* than 7 bytes or does not start with 0x10; decoding as long yields nothing
\* exactly when it has fewer than 20 bytes or does not start with 0x11; in
\* every other case the message's fields are the buffer's bytes.
C22_DecodeRejectsExactly ==
    (fout.done /\ fin.kind = "buffer") =>
        /\ ~IsSome(fout.short) <=> (Len(fin.bytes) < 7 \/ fin.bytes[1] /= \H10)
        /\ ~IsSome(fout.long) <=> (Len(fin.bytes) < 20 \/ fin.bytes[1] /= \H11)
        /\ IsSome(fout.short) =>
              short_to_bytes(Unwrap(fout.short)) = SubSeq(fin.bytes, 1, 7)
        /\ IsSome(fout.long) =>
              long_to_bytes(Unwrap(fout.long)) = SubSeq(fin.bytes, 1, 20)

C22_Witness ==
    /\ fout.done /\ fin.kind = "buffer"
    /\ Len(fin.bytes) = 19 /\ fin.bytes[1] = \H11
    /\ ~IsSome(fout.long) /\ ~IsSome(fout.short)

(***************************************************************************)
(* SpecOpen: HidppDevice::open against devices that echo the ping, answer  *)
(* it with another byte, or do not answer, under every fault of the        *)
(* channel.  ret is the Option<HidppDevice> open returns.                  *)
(***************************************************************************)
PingKinds == {"echo", "mismatch", "silent"}

OpenDevices ==
    {[d EXCEPT !.ping = p, !.conn = c] :
        d \in Devices, p \in PingKinds, c \in ConnectionTypes}

OpenFaults == {NoFault} \cup [at : 1..MaxFaultAt, kind : FaultKinds]

InitOpen ==
    /\ dev \in OpenDevices
    /\ op = Idle /\ ret = <<>> /\ io = <<>>
    /\ mgr = <<>> /\ clock = 0 /\ prev = <<>> /\ lock = <<>>
    /\ hpc = <<>> /\ chan = <<>> /\ fin = <<>> /\ fout = <<>>

Open ==
    /\ op = Idle
    /\ \E f \in OpenFaults, avail \in BOOLEAN :
        \E r \in {open(NewCx(dev, f), avail)} :
            /\ Used(f, avail, r.cx)
            /\ op' = Call("open", <<>>, f, avail) /\ ret' = r.val /\ io' = r.cx.log
            /\ UNCHANGED <<mgr, clock, dev, prev, lockVars, pureVars>>

NextOpen == Open \/ Return

SpecOpen == InitOpen /\ [][NextOpen]_vars

\* the ping frame open() sends to the device
PingFrame ==
    <<SHORT, DeviceIndexOf(dev.conn), 0, FnSw(1, SOFTWARE_ID), 0, 0, \HAA>>

\* the ping was written and one of the reads after it returned a frame that
\* matches it on device index, feature index, function and request tag and
\* carries 0xAA in byte 6
PingEchoed ==
    /\ op.avail
    /\ \E i \in WritesOf(io) : io[i].frame = PingFrame /\ io[i].ok
    /\ \E rx \in {RxAfter(NewCx(dev, op.fault), PingFrame)} :
        \E i \in DOMAIN rx :
          /\ rx[i].k = "frame"
          /\ Len(rx[i].bytes) >= 7
          /\ SubSeq(rx[i].bytes, 1, 4) = SubSeq(PingFrame, 1, 4)
          /\ rx[i].bytes[7] = \HAA

\* C23: open() yields a session only if a reply matching the ping arrived
\* whose byte 6 is 0xAA; after a mismatching echo, an error frame or no reply
\* open() yields none and no frame other than the ping was written (feature
\* discovery did not run).
C23_SessionOnlyAfterEcho ==
    op.name = "open" =>
        /\ IsSome(ret) => PingEchoed
        /\ ~PingEchoed =>
              /\ ~IsSome(ret)
              /\ \A i \in WritesOf(io) : io[i].frame = PingFrame
              /\ Writes(io) <= 1

C23_Witness ==
    /\ op.name = "open" /\ op.avail /\ op.fault = NoFault
    /\ dev.ping = "mismatch"
    /\ ~IsSome(ret) /\ Writes(io) = 1

\* the big-endian 16-bit values of a byte sequence read pairwise
PairsOf(bytes) ==
    [k \in 1..(Len(bytes) \div 2) |-> bytes[2 * k - 1] * 256 + bytes[2 * k]]

\* the entries before the first zero entry
BeforeZero(values) ==
    IF \E k \in DOMAIN values : values[k] = 0
    THEN SubSeq(values, 1, (CHOOSE k \in DOMAIN values :
                               values[k] = 0 /\ \A j \in 1..(k - 1) : values[j] /= 0) - 1)
    ELSE values

IsDpiValue(v) == v < \HE000

\* C24 as stated: for any DPI-list response get_dpi_list returns, in order,
\* the big-endian 16-bit values read pairwise from the payload (the bytes
\* after the frame's four header bytes) up to but not including the first
\* zero pair, leaving out every value >= 0xE000.
C24_ListFromPayload ==
    (fout.done /\ fin.kind = "dpi_list") =>
        fout.list = Some(SelectSeq(BeforeZero(PairsOf(fin.payload)), IsDpiValue))

\* C24 amended: the values are read pairwise from the payload after its first
\* byte, the sensor index.
C24_ListAfterSensorIndex ==
    (fout.done /\ fin.kind = "dpi_list") =>
        fout.list = Some(SelectSeq(BeforeZero(PairsOf(Tail(fin.payload))), IsDpiValue))

C24_Witness ==
    /\ fout.done /\ fin.kind = "dpi_list"
    /\ Len(fin.payload) = 16
    /\ SubSeq(fin.payload, 1, 7) = <<0, 3, 32, 1, 144, 0, 0>>
    /\ fout.list = Some(<<800, 400>>)

(***************************************************************************)
(* Error kinds of the capability-control setter, under Spec                *)
(***************************************************************************)
\* the session a DPI operation used holds the DPI feature's index
DpiDiscovered ==
    IsSome(mgr.device) /\ IsSome(Unwrap(mgr.device).dpi_feature_index)

\* the last frame the operation wrote was hit by the injected fault: its
\* write failed or no reply to it arrived
LastRequestFailed ==
    op.fault /= NoFault /\ Writes(io) > 0 /\ op.fault.at = Writes(io)

\* C25 as stated: set_dpi fails with NotSupported exactly when the feature
\* was never discovered for the current session, and every other failure it
\* reports (no connected device, no reply, write failure) is
\* CommunicationError.
C25_OtherFailuresAreCommunicationError ==
    op.name = "set_dpi" =>
        /\ ret = Err(HapticErr("NotSupported"))
              <=> (IsSome(mgr.device) /\ ~DpiDiscovered)
        /\ (~ret.ok /\ ret /= Err(HapticErr("NotSupported")))
              => ret = Err(HapticErr("CommunicationError"))

\* C25 amended: NotSupported exactly when a session is held whose discovery
\* did not find the feature; DeviceNotFound exactly when no session is held
\* after the connection attempt; CommunicationError exactly when the session
\* has the feature and the request got no reply or its write failed; success
\* otherwise.
C25_SetDpiErrorKinds ==
    op.name = "set_dpi" =>
        /\ ret = Err(HapticErr("NotSupported"))
              <=> (IsSome(mgr.device) /\ ~DpiDiscovered)
        /\ ret = Err(HapticErr("DeviceNotFound")) <=> ~IsSome(mgr.device)
        /\ ret = Err(HapticErr("CommunicationError"))
              <=> (DpiDiscovered /\ LastRequestFailed)
        /\ ret = Ok(<<>>) <=> (DpiDiscovered /\ ~LastRequestFailed)

C25_Witness ==
    /\ op.name = "set_dpi" /\ ~op.avail
    /\ ~IsSome(mgr.device)
    /\ ret = Err(HapticErr("DeviceNotFound"))

(***************************************************************************)
(* Slice change without a device, under SpecSlice                          *)
(***************************************************************************)
\* the time since the last emitted slice change, at the call
SinceLastSlice ==
    IF Cur.t0 >= Before.last_slice_change_ms
    THEN Cur.t0 - Before.last_slice_change_ms ELSE 0

\* neither the re-entry suppression nor the rapid-movement suppression
\* applies to the call
NoSuppressionApplies ==
    /\ ~(Before.last_slice_index = Some(Cur.arg)
            /\ SinceLastSlice < Before.reentry_debounce_ms)
    /\ SinceLastSlice >= Before.slice_debounce_ms

GateCalls(log) == {j \in DOMAIN log : log[j].k = "verify"}

\* C27: on every path that uses a feature, the gate is called, and has
\* succeeded, before any request frame referencing the feature's index is
\* written: every frame with a feature-index byte other than the root's is
\* preceded in the operation's log by a gate call.
C27_GateBeforeFeatureUse ==
    \A i \in WritesOf(io) :
        B(io[i].frame, 2) /= 0 => \E j \in GateCalls(io) : j < i

(***************************************************************************)
(* Frames buffered before a request, under SpecRequest                     *)
(***************************************************************************)
\* C28: every frame buffered when hidpp_request starts has been read and
\* discarded by the time the request frame is written, and none of them is
\* returned as the request's response, even one that matches the request on
\* device index, feature index, function and request tag.
C28_BufferedFramesDiscarded ==
    hpc.pc \in {"write", "poll", "done"} =>
        /\ hpc.stale = <<>>
        /\ ~hpc.stale_returned

\* C28 witness: two frames were buffered, the request was written after them
\* and a reply read after the write was returned
C28_Witness ==
    /\ hpc.pc = "done" /\ hpc.buffered = 2 /\ hpc.reads > 0
    /\ ret /= <<>> /\ ret[1].k = "some"

(***************************************************************************)
(* Connection State transitions and the cooldown window, under Spec        *)
(***************************************************************************)
\* the documented transitions of Connection State
DocumentedTransitions ==
    {<<"NotConnected", "Connected">>,
     <<"Connected", "Disconnected">>,
     <<"Disconnected", "Cooldown">>, <<"Disconnected", "Connected">>,
     <<"Cooldown", "Connected">>}

\* C29: Connection State changes only along the documented transitions:
\* NotConnected to Connected, Connected to Disconnected, Disconnected to
\* Cooldown or Connected, Cooldown to Connected (or it stays Cooldown);
\* Disconnected is entered only from Connected and NotConnected is never
\* entered from Connected, Disconnected or Cooldown.
C29_DocumentedTransitionsOnly ==
    [][mgr'.connection_state /= mgr.connection_state =>
          <<mgr.connection_state, mgr'.connection_state>> \in DocumentedTransitions]_vars

\* C30: from a connection failure recorded at time t until t + 5000 ms, no
\* operation other than connect itself (reconnect_if_needed, emit, pulse,
\* emit_slice_change, dpi_supported, get_dpi, set_dpi, get_dpi_list) attempts
\* device discovery or open().
C30_NoOpenDuringCooldown ==
    [][(/\ op'.name \in {"reconnect_if_needed", "emit", "pulse", "emit_slice_change",
                         "dpi_supported", "get_dpi", "set_dpi", "get_dpi_list"}
        /\ op.name = "none"
        /\ mgr.last_disconnect_ms > 0
        /\ clock >= mgr.last_disconnect_ms
        /\ clock < mgr.last_disconnect_ms + RECONNECT_COOLDOWN_MS)
       => Opens(io') = 0]_vars

(***************************************************************************)
(* The last-pulse timestamp, under Spec                                    *)
(***************************************************************************)
\* C31: after an emit or pulse call returns, the last-pulse timestamp
\* differs from its value before the call only if a device write made by
\* that call succeeded; a suppressed call and a call whose write fails
\* leave it unchanged.
C31_TimestampOnlyAfterWrite ==
    [][(/\ op.name = "none" /\ op'.name \in {"emit", "pulse"}
        /\ mgr'.last_pulse_ms /= mgr.last_pulse_ms)
       => \E i \in WritesOf(io') : io'[i].ok]_vars

(***************************************************************************)
(* The pulses of a pattern on a legacy-only device, under SpecDebounce     *)
(***************************************************************************)
\* the session held offers the legacy pulse feature and no native playback
LegacyOnly(m) ==
    /\ IsSome(m.device)
    /\ Unwrap(m.device).haptic_supported
    /\ ~Unwrap(m.device).mx4_haptic_supported

\* C32: on a legacy-only device an emit(event) that debounce does not
\* suppress on entry issues exactly as many pulse requests as the event's
\* pattern prescribes (1 for MenuAppear and SliceChange, 2 for
\* SelectionConfirm, 3 for InvalidAction), whatever debounce_ms is.
C32_AllPulsesOfPatternIssued ==
    [][(/\ op.name = "none" /\ op'.name = "emit"
        /\ mgr.enabled /\ LegacyOnly(mgr)
        /\ saturating_sub(clock, mgr.last_pulse_ms) >= mgr.debounce_ms)
       => Writes(io') = (CASE op'.arg \in {"MenuAppear", "SliceChange"} -> 1
                           [] op'.arg = "SelectionConfirm" -> 2
                           [] op'.arg = "InvalidAction" -> 3)]_vars

\* C32 witness: the three pulses of InvalidAction were requested with a
\* debounce interval longer than the gap between them
C32_Witness ==
    /\ op.name = "emit" /\ op.arg = "InvalidAction"
    /\ LegacyOnly(mgr) /\ mgr.debounce_ms = LongDebounceMs
    /\ mgr.debounce_ms > gap_ms("Triple")
    /\ Writes(io) = 3

(***************************************************************************)
(* SpecReload: emit on a connected controller whose settings are replaced  *)
(* by configuration hot-reloads between the calls.                         *)
(***************************************************************************)
\* the per-event names of the configurations loaded: the defaults, another
\* waveform for every event, a name that is not a waveform's
ReloadNames ==
    {PerEventNamesDefault,
     [menu_appear |-> "ringing", slice_change |-> "whisper_collision",
      confirm |-> "completed", invalid |-> "mad"],
     [PerEventNamesDefault EXCEPT !.menu_appear = "buzz"]}

ReloadConfigs ==
    {[DefaultConfig EXCEPT !.per_event = n, !.enabled = e, !.debounce_ms = d] :
        n \in ReloadNames, e \in BOOLEAN, d \in {DEFAULT_DEBOUNCE_MS, LongDebounceMs}}

InitReload ==
    /\ dev \in Devices
    /\ mgr = connect(from_config(DefaultConfig), NewCx(dev, NoFault), TRUE).m
    /\ clock = StartMs
    /\ op = Idle /\ ret = <<>> /\ io = <<>>
    /\ prev = NoPrev /\ lock = None
    /\ hpc = <<>> /\ chan = <<>> /\ fin = <<>> /\ fout = <<>>

\* reload_config handing the haptic settings to the controller
UpdateFromConfig ==
    /\ op = Idle
    /\ \E cfg \in ReloadConfigs :
          /\ mgr' = update_from_config(mgr, cfg)
          /\ op' = Call("update_from_config", cfg, NoFault, TRUE)
          /\ ret' = <<>> /\ io' = <<>>
    /\ UNCHANGED <<clock, dev, prev, lockVars, pureVars>>

NextReload ==
    \/ Return
    \/ Tick
    \/ Emit
    \/ UpdateFromConfig

SpecReload == InitReload /\ [][NextReload]_vars

\* the waveform the controller holds for an event
ConfiguredWaveform(m, event) ==
    CASE event = "MenuAppear" -> m.per_event.menu_appear
      [] event = "SliceChange" -> m.per_event.slice_change
      [] event = "SelectionConfirm" -> m.per_event.confirm
      [] event = "InvalidAction" -> m.per_event.invalid

\* C33: on a session with native waveform playback an emit(event) that is
\* not suppressed writes exactly one 7-byte frame, equal to
\* [0x10, session device-index, 0x0B, 0x4E, w, 0, 0] with w the waveform
\* configured for the event when the call is made, and its only other use of
\* the channel is the drain before the write: no read, no wait follows.
C33_OneWaveformFrame ==
    [][(/\ op.name = "none" /\ op'.name = "emit"
        /\ mgr.enabled
        /\ IsSome(mgr.device) /\ Unwrap(mgr.device).mx4_haptic_supported
        /\ saturating_sub(clock, mgr.last_pulse_ms) >= mgr.debounce_ms)
       => /\ Len(io') = 2
          /\ io'[1].k = "drain"
          /\ io'[2].k = "write"
          /\ io'[2].frame = <<16, Unwrap(mgr.device).device_index, 11, 78,
                              to_id(ConfiguredWaveform(mgr, op'.arg)), 0, 0>>]_vars

\* C33 witness: after a hot-reload that configures Ringing (0x0E) for
\* MenuAppear, emit(MenuAppear) wrote the frame carrying 0x0E
C33_Witness ==
    /\ op.name = "emit" /\ op.arg = "MenuAppear"
    /\ mgr.per_event.menu_appear = "Ringing"
    /\ io = <<[k |-> "drain"],
              [k |-> "write", frame |-> <<16, 2, 11, 78, 14, 0, 0>>, ok |-> TRUE]>>

(***************************************************************************)
(* The Feature Table after discovery, under SpecFrames                     *)
(***************************************************************************)
\* the capability index is set exactly when one of the identifiers is in
\* the table, and is then the table entry of one of them
CapabilityFromTable(cap, ids, table) ==
    /\ IsSome(cap) <=> (ids \cap DOMAIN table /= {})
    /\ IsSome(cap) => \E id \in ids \cap DOMAIN table : Unwrap(cap) = table[id]

\* C34: after discovery every Feature Table entry (id, idx) has idx = p + 1
\* for a position p in 0..count-1 at which the device reported id, and each
\* capability index (native haptic under 0x19B0 or 0x0B4E, legacy haptic
\* 0x8123, DPI 0x2201) is set if and only if its identifier is in the table,
\* and then equals that identifier's entry.
C34_TableMatchesDevice ==
    IsSome(mgr.device) =>
        /\ \A id \in DOMAIN Unwrap(mgr.device).feature_table :
              /\ Unwrap(mgr.device).feature_table[id] - 1 \in 0..(Len(dev.table) - 1)
              /\ dev.table[Unwrap(mgr.device).feature_table[id]] = id
        /\ CapabilityFromTable(Unwrap(mgr.device).mx4_haptic_feature_index,
                               {\H19B0, \H0B4E}, Unwrap(mgr.device).feature_table)
        /\ CapabilityFromTable(Unwrap(mgr.device).haptic_feature_index,
                               {\H8123}, Unwrap(mgr.device).feature_table)
        /\ CapabilityFromTable(Unwrap(mgr.device).dpi_feature_index,
                               {\H2201}, Unwrap(mgr.device).feature_table)

\* C34 witness: discovery on the device that reports both haptic identifiers
\* and leaves a position unanswered
C34_Witness ==
    /\ op.name = "connect" /\ dev = DevOdd /\ IsSome(mgr.device)
    /\ Unwrap(mgr.device).mx4_haptic_feature_index = Some(8)
    /\ Cardinality(DOMAIN Unwrap(mgr.device).feature_table) >= 3

(***************************************************************************)
(* Device discovery: HidppDevice::find_device over the nodes of            *)
(* /sys/class/hidraw.  A node's uevent text is the set of the substrings   *)
(* the code tests for that it contains; an unreadable uevent is the node   *)
(* [readable |-> FALSE].                                                   *)
(***************************************************************************)
MaxNodes == 3

Contains(uevent, s) == s \in uevent

UeventTexts ==
    {v \cup p \cup i : v \in {{}, {"046D"}, {"046d"}},
                       p \in {{}, {"c548"}, {"C52B"}, {"b034"}, {"C548", "B034"}},
                       i \in {{}, {"input2"}}}

HidrawNodes ==
    {[readable |-> TRUE, uevent |-> u] : u \in UeventTexts}
    \cup {[readable |-> FALSE, uevent |-> {}]}

\* the listing of the directory; a directory that is missing or cannot be
\* read has no nodes to give
Listings ==
    {[listed |-> FALSE, nodes |-> <<>>]}
    \cup {[listed |-> TRUE, nodes |-> ns] :
             ns \in UNION {[1..n -> HidrawNodes] : n \in 0..MaxNodes}}

\* the vendor filter and the classification of one node: <<>> when the node
\* is skipped, <<connection_type>> when it becomes a candidate
ClassifyNode(node) ==
    IF ~node.readable THEN None
    ELSE IF ~Contains(node.uevent, "046D") /\ ~Contains(node.uevent, "046d") THEN None
    ELSE IF Contains(node.uevent, "C548") \/ Contains(node.uevent, "c548") THEN Some("Bolt")
    ELSE IF Contains(node.uevent, "C52B") \/ Contains(node.uevent, "c52b") THEN Some("Unifying")
    ELSE IF Contains(node.uevent, "B034") \/ Contains(node.uevent, "b034") THEN Some("Usb")
    ELSE IF Contains(node.uevent, "input2") THEN Some("Bluetooth")
    ELSE None

\* the candidates, in enumeration order: the positions of the nodes kept
Candidates(nodes) == {i \in DOMAIN nodes : IsSome(ClassifyNode(nodes[i]))}

First(positions) == CHOOSE i \in positions : \A j \in positions : i <= j

Found(nodes, i) == Some([node |-> i, conn |-> Unwrap(ClassifyNode(nodes[i]))])

\* find_device without the preference for interface 2
find_device_first_candidate(sysfs) ==
    IF ~sysfs.listed \/ Candidates(sysfs.nodes) = {} THEN None
    ELSE Found(sysfs.nodes, First(Candidates(sysfs.nodes)))

find_device(sysfs) ==
    IF ~sysfs.listed THEN None
    ELSE IF \E i \in Candidates(sysfs.nodes) : Contains(sysfs.nodes[i].uevent, "input2")
    THEN Found(sysfs.nodes,
               First({i \in Candidates(sysfs.nodes) :
                         Contains(sysfs.nodes[i].uevent, "input2")}))
    ELSE IF Candidates(sysfs.nodes) /= {}
    THEN Found(sysfs.nodes, First(Candidates(sysfs.nodes)))
    ELSE None

InitDiscovery ==
    /\ fin \in Listings
    /\ fout = NotRun
    /\ mgr = <<>> /\ clock = 0 /\ dev = <<>> /\ op = <<>> /\ ret = <<>>
    /\ io = <<>> /\ prev = <<>> /\ lock = <<>> /\ hpc = <<>> /\ chan = <<>>

FindDevice ==
    /\ fout = NotRun
    /\ fout' = [done |-> TRUE, found |-> find_device(fin)]
    /\ UNCHANGED codecFrame

NextDiscovery == FindDevice

SpecDiscovery == InitDiscovery /\ [][NextDiscovery]_vars

OfType(nodes, t) == {i \in Candidates(nodes) : ClassifyNode(nodes[i]) = Some(t)}

Interface2(nodes, positions) == {i \in positions : Contains(nodes[i].uevent, "input2")}

\* C36 as stated: no candidate exactly when no node passes the filter and the
\* classification; when several candidates share a connection type, the
\* result exposes interface 2 if a candidate of that type does, and is
\* otherwise the first candidate in enumeration order.
C36_PreferenceWithinType ==
    fout.done =>
        /\ (fout.found = None) <=> (Candidates(fin.nodes) = {})
        /\ \A t \in ConnectionTypes :
              Cardinality(OfType(fin.nodes, t)) >= 2 =>
                 IF Interface2(fin.nodes, OfType(fin.nodes, t)) /= {}
                 THEN Unwrap(fout.found).node \in Interface2(fin.nodes, Candidates(fin.nodes))
                 ELSE Unwrap(fout.found).node = First(Candidates(fin.nodes))

\* C36 amended: no candidate exactly when no node passes the filter and the
\* classification; otherwise the result is the first candidate in enumeration
\* order that exposes interface 2, of whatever connection type, if any
\* candidate does, and the first candidate if none does; it carries the
\* connection type its node was classified as.
C36_PreferenceAcrossTypes ==
    fout.done =>
        /\ (fout.found = None) <=> (Candidates(fin.nodes) = {})
        /\ IsSome(fout.found) =>
              /\ Unwrap(fout.found).node =
                    IF Interface2(fin.nodes, Candidates(fin.nodes)) /= {}
                    THEN First(Interface2(fin.nodes, Candidates(fin.nodes)))
                    ELSE First(Candidates(fin.nodes))
              /\ Some(Unwrap(fout.found).conn) =
                    ClassifyNode(fin.nodes[Unwrap(fout.found).node])

\* C36 witness: two receiver nodes without interface 2 ahead of a USB node
\* with it; the USB node is returned
C36_Witness ==
    /\ fout.done /\ Len(fin.nodes) = 3
    /\ OfType(fin.nodes, "Bolt") = {1, 2}
    /\ Interface2(fin.nodes, {1, 2}) = {}
    /\ fout.found = Some([node |-> 3, conn |-> "Usb"])

\* C35: whenever a write or read on the channel failed with an I/O error
\* during an operation (get_dpi, set_dpi and get_dpi_list included), the
\* Device Session is destroyed before the operation returns.
C35_SessionDestroyedOnIoError ==
    (op.name /= "none" /\ FailedWrite(io)) => mgr.device = None

\* C37: in every state reachable by the public controller operations
\* (connect, reconnect_if_needed, emit, pulse, emit_slice_change, the DPI
\* operations, update_from_config) a Device Session is present if and only
\* if Connection State is Connected.
C37_SessionIffConnected ==
    IsSome(mgr.device) <=> (mgr.connection_state = "Connected")

(***************************************************************************)
(* Reconnection under fairness.  fin is the phase of the device: while     *)
(* "flaky" it may be unavailable to an open and its writes may fail; once  *)
(* "stable" every open finds it and no write fails.  The clock can always  *)
(* pass one more cooldown after the device became stable.                  *)
(***************************************************************************)
InitLive ==
    /\ mgr = from_config(DefaultConfig)
    /\ clock = StartMs
    /\ dev \in Devices
    /\ op = Idle /\ ret = <<>> /\ io = <<>> /\ prev = NoPrev
    /\ lock = None /\ hpc = <<>> /\ chan = <<>>
    /\ fin = "flaky" /\ fout = <<>>

\* the call just made met an available device and no failing write
Steady == fin = "stable" => (op'.avail /\ op'.fault = NoFault)

\* the device becomes available for good
Settle ==
    /\ op = Idle /\ fin = "flaky"
    /\ fin' = "stable"
    /\ UNCHANGED <<mgr, clock, dev, op, ret, io, prev, lockVars, fout>>

\* a whole cooldown passes
CooldownPasses ==
    /\ op = Idle /\ fin = "stable" /\ clock \in ClockPoints
    /\ clock' = clock + RECONNECT_COOLDOWN_MS
    /\ UNCHANGED <<mgr, dev, op, ret, io, prev, lockVars, pureVars>>

\* a failing write hits the first frame of a call or none
LiveFaults == {NoFault, [at |-> 1, kind |-> "wfail"]}

\* the default configuration and the same with haptics switched off
LiveConfigs == {DefaultConfig, [DefaultConfig EXCEPT !.enabled = FALSE]}

\* a call as this specification records it: the name of the operation, the
\* fault and the availability it met, and its device I/O
LiveCall(name, f, avail, r, t) ==
    /\ op = Idle
    /\ Used(f, avail, r.cx)
    /\ t \in ClockPoints \/ t = clock
    /\ mgr' = r.m /\ clock' = t
    /\ op' = Call(name, <<>>, f, avail) /\ ret' = <<>> /\ io' = r.cx.log
    /\ Steady
    /\ UNCHANGED <<dev, prev, lockVars, pureVars>>

LiveReconnectIfNeeded ==
    \E f \in LiveFaults, avail \in BOOLEAN :
        LiveCall("reconnect_if_needed", f, avail,
                 reconnect_if_needed(mgr, NewCx(dev, f), clock, avail), clock)

LiveEmit ==
    \E event \in HapticEvents, f \in LiveFaults :
        \E r \in {emit(mgr, NewCx(dev, f), clock, event)} :
            LiveCall("emit", f, TRUE, r, r.t)

LiveGetDpi ==
    \E f \in LiveFaults, avail \in BOOLEAN :
        LiveCall("get_dpi", f, avail, get_dpi(mgr, NewCx(dev, f), avail), clock)

LiveSetDpi ==
    \E dpi \in DpiValues, f \in LiveFaults, avail \in BOOLEAN :
        LiveCall("set_dpi", f, avail, set_dpi(mgr, NewCx(dev, f), avail, dpi), clock)

LiveUpdateFromConfig ==
    \E cfg \in LiveConfigs :
        LiveCall("update_from_config", NoFault, TRUE,
                 [m |-> update_from_config(mgr, cfg), cx |-> NewCx(dev, NoFault)],
                 clock)

NextLive ==
    \/ Return
    \/ Tick
    \/ Settle
    \/ CooldownPasses
    \/ LiveReconnectIfNeeded
    \/ LiveEmit
    \/ LiveGetDpi
    \/ LiveSetDpi
    \/ LiveUpdateFromConfig

\* (each of these steps changes the call position, the clock or the phase)
liveFrame == <<op.name, clock, fin>>

\* the caller takes every result, the clock advances, the device becomes
\* stable, and reconnect_if_needed is called again and again
SpecLive ==
    /\ InitLive /\ [][NextLive]_vars
    /\ WF_liveFrame(Return)
    /\ SF_liveFrame(Tick) /\ SF_liveFrame(Settle) /\ SF_liveFrame(CooldownPasses)
    /\ SF_liveFrame(LiveReconnectIfNeeded)

\* C38: if the controller is in Disconnected or Cooldown and from some point
\* on the device stays available while reconnect_if_needed is called again
\* and again as the clock advances, Connection State eventually becomes
\* Connected, whatever other operations (emit, DPI getters and setters,
\* update_from_config) are interleaved before and during that period.
C38_EventuallyConnected ==
    (mgr.connection_state \in {"Disconnected", "Cooldown"})
        ~> (mgr.connection_state = "Connected")

(***************************************************************************)
(* The haptic session and the battery poller on the same physical device,  *)
(* each through a handle of its own.  A hidraw node hands every input      *)
(* report to every open handle, so the reply to either requester is queued *)
(* on both handles.                                                        *)
(*   hpc   the haptic session's hidpp_request, lock the battery poller's,  *)
(*   fin   the requests the device has received and not yet answered,      *)
(*   chan  the frames queued on each handle; a queued frame carries the    *)
(*         requester whose request the device answered with it (origin),   *)
(*   ret   the haptic request's result, fout the one of the poller.        *)
(***************************************************************************)
FEATURE_UNIFIED_BATTERY == \H1004
BATTERY_SOFTWARE_ID == \H01
BATTERY_DEVICE_INDEX == \H02
BATTERY_MAX_ATTEMPTS == 100

\* most frames waiting on a handle nobody reads
MaxQueued == 2

\* BatteryHandler::hidpp_request, one iteration of the read loop
BatteryPollRead(feature_index, function, ev, attempts) ==
    LET response == IF ev.k = "frame" THEN Take(ev.bytes, 20) ELSE <<>>
        again == IF attempts + 1 > BATTERY_MAX_ATTEMPTS
                 THEN [k |-> "timeout", attempts |-> attempts + 1]
                 ELSE [k |-> "again", attempts |-> attempts + 1]
    IN  IF ev.k = "ioerr" THEN [k |-> "ioerr", attempts |-> attempts]
        ELSE IF ev.k = "frame" /\ Len(response) >= 7 /\ B(response, 0) \in {SHORT, LONG} THEN
            IF /\ B(response, 1) = BATTERY_DEVICE_INDEX
               /\ B(response, 2) = feature_index
               /\ (B(response, 3) \div 16) % 16 = function
               /\ B(response, 3) % 16 = BATTERY_SOFTWARE_ID
            THEN [k |-> "some", resp |-> response, attempts |-> attempts]
            ELSE IF B(response, 2) = \H8F
                    \/ (B(response, 2) = feature_index /\ B(response, 4) = \H05)
            THEN [k |-> "protocol", attempts |-> attempts]
            ELSE again
        ELSE again

\* the haptic session's requests: a feature lookup and a DPI read
HapticRequests ==
    {[feature_index |-> 0, function |-> 0,
      params |-> <<Hi(ADJUSTABLE_DPI), Lo(ADJUSTABLE_DPI), 0>>],
     [feature_index |-> 3, function |-> 2, params |-> <<0>>]}

\* query_battery on a device without a battery feature: the two lookups
BatteryRequests ==
    {[feature_index |-> 0, function |-> 0,
      params |-> <<Hi(FEATURE_UNIFIED_BATTERY), Lo(FEATURE_UNIFIED_BATTERY)>>],
     [feature_index |-> 0, function |-> 0,
      params |-> <<Hi(BATTERY_STATUS), Lo(BATTERY_STATUS)>>]}

RequestFrame(device_index, q, sw_id) ==
    <<SHORT, device_index, q.feature_index, FnSw(q.function, sw_id)>> \o Pad(q.params, 3)

\* a read on a handle: the oldest queued frame, would-block when none
HandleRead(queue) == IF queue /= <<>> THEN Head(queue) ELSE [k |-> "wouldblock"]
HandleRest(queue) == IF queue /= <<>> THEN Tail(queue) ELSE <<>>

\* the device answers within a poll interval: a handle is read empty only
\* when the device holds no request
Answered(queue) == queue /= <<>> \/ fin = <<>>

InitPoller ==
    /\ mgr = from_config(DefaultConfig)
    /\ clock = StartMs
    /\ dev = NativeDev
    /\ op = Idle /\ io = <<>> /\ prev = NoPrev
    /\ hpc = ReqIdle /\ lock = ReqIdle
    /\ chan = [haptic |-> <<>>, battery |-> <<>>]
    /\ fin = <<>>
    /\ ret = <<>> /\ fout = <<>>

pollerFrame == <<mgr, clock, dev, op, io, prev>>

\* the haptic session calls hidpp_request
HapCall ==
    /\ hpc.pc = "idle" /\ Len(chan.battery) < MaxQueued
    /\ \E q \in HapticRequests :
          hpc' = [pc |-> "drain", d |-> NewSession("Bolt"), q |-> q, attempts |-> 0,
                  origin |-> "none"]
    /\ ret' = <<>>
    /\ UNCHANGED <<lock, chan, fin, fout, pollerFrame>>

\* drain_buffer reads once
HapDrain ==
    /\ hpc.pc = "drain" /\ Answered(chan.haptic)
    /\ hpc' = [hpc EXCEPT !.pc = IF DrainRead(HandleRead(chan.haptic))
                                 THEN "drain" ELSE "write"]
    /\ chan' = [chan EXCEPT !.haptic = HandleRest(@)]
    /\ UNCHANGED <<lock, fin, ret, fout, pollerFrame>>

\* the request frame reaches the device
HapWrite ==
    /\ hpc.pc = "write"
    /\ fin' = Append(fin, [from |-> "haptic",
                           frame |-> RequestFrame(hpc.d.device_index, hpc.q, SOFTWARE_ID)])
    /\ hpc' = [hpc EXCEPT !.pc = "poll"]
    /\ UNCHANGED <<lock, chan, ret, fout, pollerFrame>>

\* the read loop reads once
HapPoll ==
    /\ hpc.pc = "poll" /\ Answered(chan.haptic)
    /\ \E ev \in {HandleRead(chan.haptic)} :
        \E r \in {PollRead(hpc.d, hpc.q.feature_index, hpc.q.function, ev, hpc.attempts)} :
          /\ hpc' = [hpc EXCEPT !.pc = IF r.k = "again" THEN "poll" ELSE "done",
                                !.attempts = r.attempts,
                                !.origin = IF r.k = "some" THEN ev.origin ELSE @]
          /\ ret' = IF r.k = "again" THEN ret ELSE <<r>>
    /\ chan' = [chan EXCEPT !.haptic = HandleRest(@)]
    /\ UNCHANGED <<lock, fin, fout, pollerFrame>>

HapReturn ==
    /\ hpc.pc = "done"
    /\ hpc' = ReqIdle /\ ret' = <<>>
    /\ UNCHANGED <<lock, chan, fin, fout, pollerFrame>>

\* the battery poller calls its hidpp_request
BatCall ==
    /\ lock.pc = "idle" /\ Len(chan.haptic) < MaxQueued
    /\ \E q \in BatteryRequests : lock' = [pc |-> "drain", q |-> q, attempts |-> 0]
    /\ fout' = <<>>
    /\ UNCHANGED <<hpc, chan, fin, ret, pollerFrame>>

\* its drain loop reads once
BatDrain ==
    /\ lock.pc = "drain" /\ Answered(chan.battery)
    /\ lock' = [lock EXCEPT !.pc = IF HandleRead(chan.battery).k = "frame"
                                   THEN "drain" ELSE "write"]
    /\ chan' = [chan EXCEPT !.battery = HandleRest(@)]
    /\ UNCHANGED <<hpc, fin, ret, fout, pollerFrame>>

BatWrite ==
    /\ lock.pc = "write"
    /\ fin' = Append(fin, [from |-> "battery",
                           frame |-> RequestFrame(BATTERY_DEVICE_INDEX, lock.q,
                                                  BATTERY_SOFTWARE_ID)])
    /\ lock' = [lock EXCEPT !.pc = "poll"]
    /\ UNCHANGED <<hpc, chan, ret, fout, pollerFrame>>

BatPoll ==
    /\ lock.pc = "poll" /\ Answered(chan.battery)
    /\ \E r \in {BatteryPollRead(lock.q.feature_index, lock.q.function,
                                 HandleRead(chan.battery), lock.attempts)} :
          /\ lock' = [lock EXCEPT !.pc = IF r.k = "again" THEN "poll" ELSE "done",
                                  !.attempts = r.attempts]
          /\ fout' = IF r.k = "again" THEN fout ELSE <<r>>
    /\ chan' = [chan EXCEPT !.battery = HandleRest(@)]
    /\ UNCHANGED <<hpc, fin, ret, pollerFrame>>

BatReturn ==
    /\ lock.pc = "done"
    /\ lock' = ReqIdle /\ fout' = <<>>
    /\ UNCHANGED <<hpc, chan, fin, ret, pollerFrame>>

\* the device answers the oldest request it holds; the reply is queued on
\* both handles
DeviceAnswers ==
    /\ fin /= <<>>
    /\ fin' = Tail(fin)
    /\ \E payload \in {DevReply(dev, Head(fin).frame)} :
          chan' = IF IsSome(payload)
                  THEN [h \in {"haptic", "battery"} |->
                           Append(chan[h],
                                  [k |-> "frame", origin |-> Head(fin).from,
                                   bytes |-> ReplyFrame(Head(fin).frame, Unwrap(payload))])]
                  ELSE chan
    /\ UNCHANGED <<hpc, lock, ret, fout, pollerFrame>>

NextPoller ==
    \/ HapCall \/ HapDrain \/ HapWrite \/ HapPoll \/ HapReturn
    \/ BatCall \/ BatDrain \/ BatWrite \/ BatPoll \/ BatReturn
    \/ DeviceAnswers

SpecPoller == InitPoller /\ [][NextPoller]_vars

\* C39: while the battery poller runs against the same device through its
\* own handle with the same request tag, every response a haptic-session
\* request returns was generated by the device in reply to a haptic-session
\* request, never in reply to a battery-poller request with the same device
\* index, feature index and function.
C39_OnlyOwnReplies ==
    (hpc.pc = "done" /\ ret /= <<>> /\ ret[1].k = "some") => hpc.origin = "haptic"

(***************************************************************************)
(* reload_config on concurrent handlers.  fin is config.json on disk, fout *)
(* the shared configuration behind the RwLock, mgr the controller behind   *)
(* the mutex.  A handler is in hpc[h]:                                     *)
(*   pc   "idle", "loading" (before Config::load_default), "loaded"        *)
(*        (before config.write()), "stored" (before haptic_manager.lock()) *)
(*   new_config, haptic_config   the handler's locals.                     *)
(* Each guard is held for one assignment, so a critical section is one     *)
(* step.                                                                   *)
(***************************************************************************)
\* what config.json can hold: three configurations, or text that does not
\* parse
ConfigFiles ==
    {[ok |-> TRUE, haptics |-> c] :
        c \in {DefaultConfig,
               [DefaultConfig EXCEPT !.enabled = FALSE],
               [DefaultConfig EXCEPT
                   !.per_event = [menu_appear |-> "ringing",
                                  slice_change |-> "whisper_collision",
                                  confirm |-> "completed", invalid |-> "mad"],
                   !.debounce_ms = LongDebounceMs]}}
    \cup {[ok |-> FALSE]}

RIdle(n) == [pc |-> "idle", calls |-> n, new_config |-> <<>>, haptic_config |-> <<>>]

InitConfig ==
    /\ fin = [ok |-> TRUE, haptics |-> DefaultConfig]
    /\ fout = [ok |-> TRUE, haptics |-> DefaultConfig]
    /\ mgr = from_config(DefaultConfig)
    /\ hpc = [h \in Handlers |-> RIdle(0)]
    /\ clock = StartMs /\ dev = NativeDev
    /\ op = Idle /\ ret = <<>> /\ io = <<>> /\ prev = NoPrev
    /\ lock = None /\ chan = <<>>

configFrame == <<clock, dev, op, ret, io, prev, lock, chan>>

\* the settings are saved to disk
SaveConfigFile ==
    /\ \E f \in ConfigFiles : f /= fin /\ fin' = f
    /\ UNCHANGED <<fout, mgr, hpc, configFrame>>

\* a ReloadConfig call arrives at handler h
ReloadCall(h) ==
    /\ hpc[h].pc = "idle" /\ hpc[h].calls < MaxCalls
    /\ hpc' = [hpc EXCEPT ![h] = [@ EXCEPT !.pc = "loading"]]
    /\ UNCHANGED <<fin, fout, mgr, configFrame>>

\* Config::load_default(); on Err the call returns
ReloadLoad(h) ==
    /\ hpc[h].pc = "loading"
    /\ hpc' = [hpc EXCEPT ![h] =
                  IF fin.ok
                  THEN [@ EXCEPT !.pc = "loaded", !.new_config = fin,
                                 !.haptic_config = fin.haptics]
                  ELSE RIdle(@.calls + 1)]
    /\ UNCHANGED <<fin, fout, mgr, configFrame>>

\* *config = new_config under the write guard
ReloadStore(h) ==
    /\ hpc[h].pc = "loaded"
    /\ fout' = hpc[h].new_config
    /\ hpc' = [hpc EXCEPT ![h] = [@ EXCEPT !.pc = "stored"]]
    /\ UNCHANGED <<fin, mgr, configFrame>>

\* manager.update_from_config(&haptic_config) under the mutex guard; the
\* call returns
ReloadUpdate(h) ==
    /\ hpc[h].pc = "stored"
    /\ mgr' = update_from_config(mgr, hpc[h].haptic_config)
    /\ hpc' = [hpc EXCEPT ![h] = RIdle(@.calls + 1)]
    /\ UNCHANGED <<fin, fout, configFrame>>

NextConfig ==
    \/ SaveConfigFile
    \/ \E h \in Handlers : ReloadCall(h) \/ ReloadLoad(h) \/ ReloadStore(h) \/ ReloadUpdate(h)

SpecConfig == InitConfig /\ [][NextConfig]_vars

\* C40: after any set of concurrently executing reload_config calls has
\* completed, the controller's settings (enabled flag, per-event waveforms,
\* the three debounce intervals) equal those of the configuration stored in
\* the shared configuration.
C40_SettingsMatchStoredConfig ==
    (\A h \in Handlers : hpc[h].pc = "idle")
        => mgr = update_from_config(mgr, fout.haptics)

====
